---- MODULE Spec2Model ----
(***************************************************************************)
(* A model of elf2flash: the USB mass-storage block device and its         *)
(* partition view (usbh-scsi, usbh-fatfs), the Bulk-Only Transport command *)
(* engine, and the ELF -> UF2 page assembler (elf2flash-core).             *)
(*                                                                         *)
(* Each subsystem has its own specification over the shared variables:     *)
(*   SpecBlk     UsbBlockDevice: read, write (read-modify-write), seek,    *)
(*               read_at                                                   *)
(*   SpecView    PartitionView over a UsbBlockDevice                       *)
(*   SpecBot     UsbMassStorage<Opened>::execute_command on the bus        *)
(*   SpecMsc     UsbMassStorage: open, write, read, execute_command,       *)
(*               get_max_lun, close, drop                                  *)
(*   SpecUf2     get_page_fragments, realize_page and elf2uf2              *)
(*   SpecConvert the convert command around elf2uf2                        *)
(*   SpecDeploy  the deploy_to_usb command                                 *)
(*   SpecSto     StorageUsb::open and FatPartition::list_partitions        *)
(*   SpecBoards  the deploy command over the plugged-in boards             *)
(* A specification leaves the variables of the other subsystems at their   *)
(* idle values.                                                            *)
(***************************************************************************)
EXTENDS Integers, Sequences, FiniteSets, TLC

(***************************************************************************)
(* Bounds of the model.                                                    *)
(***************************************************************************)
\* largest block size the device reports (READ CAPACITY block length)
MaxBs == 2
\* largest capacity of the medium, in bytes and in blocks
MaxDiskBytes == 4
MaxBlocks == 2
\* longest buffer handed to read, write
MaxBuf == 3
\* farthest backward seek offset
MaxSeek == 1
\* largest start and length, in bytes, of a partition
MaxViewStart == 2
MaxViewLen == 2
\* command tags are 1..MaxTag
MaxTag == 2
\* execute_command calls that reach the bus in one run
MaxCalls == 2
\* length of the data buffer handed to execute_command
MaxData == 2
\* width, in bits, of the model's u64 (addresses) and u32 (target_addr)
U64Bits == 4
U32Bits == 3
\* length of the data area of a UF2 block (476 in the program)
Uf2DataLen == 4
\* length of the file data a segment can point into
FileLen == 4
\* largest p_filesz and p_memsz of a segment
MaxSegSize == 2
\* with two segments, both lie at addresses 0..MaxPairAddr
MaxPairAddr == 3
\* a byte of the medium or of a buffer is in 0..MaxByte
MaxByte == 1
\* width, in bits, of the model's u16 (the READ(10)/WRITE(10) transfer length)
U16Bits == 1

Bytes == 0..MaxByte

Min(a, b) == IF a < b THEN a ELSE b
Max(a, b) == IF a > b THEN a ELSE b

RECURSIVE Pow2(_)
Pow2(n) == IF n = 0 THEN 1 ELSE 2 * Pow2(n - 1)

\* `x as u16`
AsU16(x) == x % Pow2(U16Bits)

\* all sequences over S of length 0..n
SeqsUpTo(S, n) == UNION {[1..k -> S] : k \in 0..n}

VARIABLES
    \* ---- UsbBlockDevice (block_device.rs) and the medium behind it
    medium,       \* the bytes of the disk, medium[a + 1] is absolute byte a
    block_size,   \* UsbBlockDevice.block_size
    max_lba,      \* UsbBlockDevice.max_lba
    pos,          \* UsbBlockDevice.pos
    lastOp,       \* the last call on the device: its arguments and result
    \* ---- PartitionView (usbh-fatfs/src/lib.rs)
    view,         \* the view: start, len, how it was built
    viewOp,       \* the last call on the view and the I/O it forwarded
    \* ---- UsbMassStorage<Opened> (usbh-scsi storage/mod.rs)
    transport,    \* extra.bulk_only_transport is Some
    busLog,       \* the transfers on the bulk endpoints so far, in order
    botOp,        \* the last execute_command call and its result
    usb,          \* the UsbMassStorage value, its handle, the claimed interfaces
    mscOp,        \* the last of open, close, drop and the handle calls it made
    \* ---- elf2uf2 (elf2flash-core)
    elf,          \* the input: program headers, file length, board
    conv,         \* the conversion: page map, blocks written, result
    \* ---- the commands of the elf2flash binary (commands/)
    deploy,       \* a deploy_to_usb call: the stream, the file calls, result
    outFile,      \* the output path of a convert call and what convert returned
    \* ---- StorageUsb (usbh-fatfs/src/lib.rs) and the deploy command
    storage,      \* the StorageUsb values of list_usbs and the last call on one
    plugged       \* a deploy call: its place in the loop over the boards

blkVars == <<medium, block_size, max_lba, pos, lastOp>>
viewVars == <<view, viewOp>>
botVars == <<transport, busLog, botOp, usb, mscOp>>
uf2Vars == <<elf, conv>>
stoVars == <<storage, plugged>>
cliVars == <<deploy, outFile, stoVars>>
vars == <<medium, block_size, max_lba, pos, lastOp, view, viewOp,
          transport, busLog, botOp, usb, mscOp, elf, conv, deploy, outFile,
          storage, plugged>>

(***************************************************************************)
(* Bulk-Only Transport: UsbMassStorage<Opened> (usbh-scsi storage/mod.rs)  *)
(*                                                                         *)
(* A transfer on the bus is [kind, tag, done]; done is "ok", "short" (the  *)
(* transfer moved fewer bytes than asked) or "err" (rusb reported an       *)
(* error).  env gives what the device and the bus do to one command:       *)
(*   env.cbw, env.data, env.csw   the outcome of each of the transfers     *)
(*   env.sig_ok, env.csw_tag, env.status   the contents of the CSW         *)
(***************************************************************************)
CBW_LEN == 31
CSW_LEN == 13

\* u32::to_le_bytes
to_le_bytes(x) ==
    <<x % 256, (x \div 256) % 256, (x \div 65536) % 256, (x \div 16777216) % 256>>

\* the SCSI commands (usbh-scsi commands/): a command is
\* [op, alloc_len, logical_unit_number, logical_block_address, transfer_length]
InquiryCommand_new(alloc_len) ==
    [op |-> "INQUIRY", alloc_len |-> alloc_len, logical_unit_number |-> 0,
     logical_block_address |-> 0, transfer_length |-> 0]

ReadCapacity10Command_new(logical_unit_number) ==
    [op |-> "READ_CAPACITY10", alloc_len |-> 0,
     logical_unit_number |-> logical_unit_number,
     logical_block_address |-> 0, transfer_length |-> 0]

Read10Command_new(logical_unit_number, logical_block_address, transfer_length) ==
    [op |-> "READ10", alloc_len |-> 0,
     logical_unit_number |-> logical_unit_number,
     logical_block_address |-> logical_block_address,
     transfer_length |-> transfer_length]

Write10Command_new(logical_unit_number, logical_block_address, transfer_length) ==
    [op |-> "WRITE10", alloc_len |-> 0,
     logical_unit_number |-> logical_unit_number,
     logical_block_address |-> logical_block_address,
     transfer_length |-> transfer_length]

\* impl CommandBlock for InquiryCommand: opcode 0x12 and the allocation
\* length in a zeroed [u8; 16]
InquiryCommand_to_bytes(cmd) ==
    <<18, 0, 0, 0, cmd.alloc_len, 0, 0, 0, 0, 0, 0, 0, 0, 0, 0, 0>>

\* impl CommandBlock for ReadCapacity10Command: opcode 0x25, LUN in bits 7-5
ReadCapacity10Command_to_bytes(cmd) ==
    <<37, ((cmd.logical_unit_number % 8) * 32) % 256,
      0, 0, 0, 0, 0, 0, 0, 0, 0, 0, 0, 0, 0, 0>>

\* the CDB of READ(10) and WRITE(10): opcode, LUN, LBA and transfer length
\* big-endian in bytes 2..5 and 7..8 of a zeroed [u8; 16]
Rw10_to_bytes(opcode, cmd) ==
    <<opcode,
      ((cmd.logical_unit_number % 8) * 32) % 256,
      (cmd.logical_block_address \div 16777216) % 256,
      (cmd.logical_block_address \div 65536) % 256,
      (cmd.logical_block_address \div 256) % 256,
      cmd.logical_block_address % 256,
      0,
      (cmd.transfer_length \div 256) % 256,
      cmd.transfer_length % 256,
      0, 0, 0, 0, 0, 0, 0>>

\* impl CommandBlock for Read10Command: opcode 0x28
Read10Command_to_bytes(cmd) == Rw10_to_bytes(40, cmd)

\* impl CommandBlock for Write10Command: opcode 0x2A
Write10Command_to_bytes(cmd) == Rw10_to_bytes(42, cmd)

\* CommandBlock::to_bytes
CommandBlock_to_bytes(cmd) ==
    CASE cmd.op = "INQUIRY" -> InquiryCommand_to_bytes(cmd)
      [] cmd.op = "READ_CAPACITY10" -> ReadCapacity10Command_to_bytes(cmd)
      [] cmd.op = "READ10" -> Read10Command_to_bytes(cmd)
      [] cmd.op = "WRITE10" -> Write10Command_to_bytes(cmd)

\* CommandBlock::len
CommandBlock_len(cmd) == IF cmd.op = "INQUIRY" THEN 6 ELSE 10

\* cbw.rs line 4; 'USBC'
CBW_SIGNATURE == 1128420181

\* Cbw::new(tag, data_len, direction, cmd)
Cbw_new(tag, data_len, direction, cmd) ==
    LET cmd_bytes == CommandBlock_to_bytes(cmd)
    IN  [dCBWSignature |-> CBW_SIGNATURE,
         dCBWTag |-> tag,
         dCBWDataTransferLength |-> data_len,
         bmCBWFlags |-> IF direction = "In" THEN 128 ELSE 0,
         bCBWLUN |-> 0,
         bCBWCBLength |-> Len(cmd_bytes) % 256,
         CBWCB |-> cmd_bytes]

\* Cbw::to_bytes: the 31 bytes on the wire
Cbw_to_bytes(cbw) ==
    to_le_bytes(cbw.dCBWSignature)
    \o to_le_bytes(cbw.dCBWTag)
    \o to_le_bytes(cbw.dCBWDataTransferLength)
    \o <<cbw.bmCBWFlags, cbw.bCBWLUN, cbw.bCBWCBLength>>
    \o cbw.CBWCB

Outcomes == {"ok", "short", "err"}

\* bytes moved by a transfer of len bytes with the given outcome
Moved(len, outcome) ==
    IF outcome = "short" /\ len > 0 THEN len - 1 ELSE len

\* UsbMassStorage<Opened>::write: one transfer on the bulk OUT endpoint; bytes
\* are the contents of the buffer where the model follows them (the CBW).  The
\* outcome "stall" is rusb::Error::Pipe, "err" any other rusb error: `?` turns
\* both into UsbDeviceBulkFailed.
bulk_write(has_transport, kind, tag, bytes, len, outcome) ==
    IF ~has_transport
    THEN [res |-> "err", err |-> "NoKnownTransportationMethod", n |-> 0,
          bus |-> <<>>]
    ELSE IF outcome \in {"err", "stall"}
    THEN [res |-> "err", err |-> "UsbDeviceBulkFailed", n |-> 0,
          bus |-> <<[kind |-> kind, tag |-> tag, done |-> outcome,
                     bytes |-> bytes]>>]
    ELSE [res |-> "ok", err |-> "", n |-> Moved(len, outcome),
          bus |-> <<[kind |-> kind, tag |-> tag,
                     done |-> IF Moved(len, outcome) = len THEN "ok"
                              ELSE "short",
                     bytes |-> bytes]>>]

\* UsbMassStorage<Opened>::read: one transfer on the bulk IN endpoint
bulk_read(has_transport, kind, tag, len, outcome) ==
    IF ~has_transport
    THEN [res |-> "err", err |-> "NoKnownTransportationMethod", n |-> 0,
          bus |-> <<>>]
    ELSE IF outcome \in {"err", "stall"}
    THEN [res |-> "err", err |-> "UsbDeviceBulkFailed", n |-> 0,
          bus |-> <<[kind |-> kind, tag |-> tag, done |-> outcome,
                     bytes |-> <<>>]>>]
    ELSE [res |-> "ok", err |-> "", n |-> Moved(len, outcome),
          bus |-> <<[kind |-> kind, tag |-> tag,
                     done |-> IF Moved(len, outcome) = len THEN "ok"
                              ELSE "short",
                     bytes |-> <<>>]>>]

\* the outcomes of the GET_MAX_LUN control read: one byte, another length, a
\* stall (rusb::Error::Pipe), another rusb error
LunOutcomes == {"one", "size", "stall", "err"}

\* a get_max_lun that reports a stall as an error
get_max_lun_stall_fails(has_transport, interface_number, outcome, byte) ==
    IF ~has_transport
    THEN [res |-> "err", err |-> "NoKnownTransportationMethod", n |-> 0,
          bus |-> <<>>]
    ELSE [res |-> IF outcome \in {"stall", "err"} THEN "err" ELSE "ok",
          err |-> IF outcome \in {"stall", "err"} THEN "UsbDeviceBulkFailed"
                  ELSE "",
          n |-> IF outcome = "one" THEN byte ELSE 0,
          bus |-> <<[kind |-> "GET_MAX_LUN", tag |-> interface_number,
                     done |-> outcome,
                     bytes |-> IF outcome = "one" THEN <<byte>> ELSE <<>>]>>]

\* UsbMassStorage<Opened>::get_max_lun: one control read of one byte with
\* wIndex the interface number; n is the LUN returned, bytes the byte received
get_max_lun(has_transport, interface_number, outcome, byte) ==
    IF ~has_transport
    THEN [res |-> "err", err |-> "NoKnownTransportationMethod", n |-> 0,
          bus |-> <<>>]
    ELSE [res |-> IF outcome = "err" THEN "err" ELSE "ok",
          err |-> IF outcome = "err" THEN "UsbDeviceBulkFailed" ELSE "",
          n |-> IF outcome = "one" THEN byte ELSE 0,
          bus |-> <<[kind |-> "GET_MAX_LUN", tag |-> interface_number,
                     done |-> outcome,
                     bytes |-> IF outcome = "one" THEN <<byte>> ELSE <<>>]>>]

NoCsw == [read |-> FALSE, sig_ok |-> FALSE, tag |-> 0, status |-> 0]

\* lines 341-344: assert_eq!(n, 13, "short CSW"); Ok(()).  r is the CSW read.
csw_checked(r, env, bus) ==
    IF r.res = "err"
    THEN [res |-> "err", err |-> r.err, bus |-> bus \o r.bus, csw |-> NoCsw]
    ELSE IF r.n # CSW_LEN
    THEN [res |-> "panic", err |-> "short CSW", bus |-> bus \o r.bus,
          csw |-> NoCsw]
    ELSE [res |-> "ok", err |-> "", bus |-> bus \o r.bus,
          csw |-> [read |-> TRUE, sig_ok |-> env.sig_ok,
                   tag |-> env.csw_tag, status |-> env.status]]

\* phase 3 of execute_command: read 13 bytes from the IN endpoint
execute_csw(has_transport, env, bus) ==
    csw_checked(bulk_read(has_transport, "CSW", env.csw_tag, CSW_LEN, env.csw),
                env, bus)

\* phase 2 of execute_command: the transfer of the data phase, if any
data_phase(has_transport, tag, direction, has_buf, buf_len, env) ==
    IF ~has_buf
    THEN [res |-> "ok", err |-> "", n |-> 0, bus |-> <<>>]
    ELSE IF direction = "In"
    THEN bulk_read(has_transport, "DATA_IN", tag, buf_len, env.data)
    ELSE bulk_write(has_transport, "DATA_OUT", tag, <<>>, buf_len, env.data)

\* lines 326-344: `?` on the data transfer, assert_eq!(n, len) on a read, then
\* the CSW.  d is the data transfer.
after_data(d, has_transport, direction, has_buf, buf_len, env, bus) ==
    IF d.res = "err"
    THEN [res |-> "err", err |-> d.err, bus |-> bus \o d.bus, csw |-> NoCsw]
    ELSE IF has_buf /\ direction = "In" /\ d.n # buf_len
    THEN [res |-> "panic", err |-> "assert_eq!(n, len)", bus |-> bus \o d.bus,
          csw |-> NoCsw]
    ELSE execute_csw(has_transport, env, bus \o d.bus)

\* lines 322-323: `?` on the CBW write.  w is the CBW write.
after_cbw(w, has_transport, tag, direction, has_buf, buf_len, env) ==
    IF w.res = "err"
    THEN [res |-> "err", err |-> w.err, bus |-> w.bus, csw |-> NoCsw]
    ELSE after_data(data_phase(has_transport, tag, direction, has_buf, buf_len, env),
                    has_transport, direction, has_buf, buf_len, env, w.bus)

\* UsbMassStorage<Opened>::execute_command: CBW, data phase, CSW
execute_command(has_transport, tag, data_len, direction, cmd, has_buf, buf_len, env) ==
    after_cbw(bulk_write(has_transport, "CBW", tag,
                         Cbw_to_bytes(Cbw_new(tag, data_len, direction, cmd)),
                         CBW_LEN, env.cbw),
              has_transport, tag, direction, has_buf, buf_len, env)

\* a command that the bus and the device complete, with a valid CSW
EnvOk(tag) ==
    [cbw |-> "ok", data |-> "ok", csw |-> "ok",
     sig_ok |-> TRUE, csw_tag |-> tag, status |-> 0]

(***************************************************************************)
(* The medium behind the device: what READ(10) and WRITE(10) of count      *)
(* blocks at lba do when the device carries them out.                      *)
(***************************************************************************)
DevRead(m, bs, lba, count) ==
    [i \in 1..(count * bs) |-> m[lba * bs + i]]

DevWrite(m, bs, lba, data) ==
    [i \in 1..Len(m) |->
        IF i > lba * bs /\ i <= lba * bs + Len(data)
        THEN data[i - lba * bs] ELSE m[i]]

\* A block command of a call fails when it is the fail.at-th command of the call
\* (0: none fails), in the data phase or at the CSW read.  A WRITE(10) whose
\* data phase completed has reached the medium even when its CSW is not read.
NoFail == [at |-> 0, phase |-> "data"]
FailChoices(n) == {NoFail} \cup [at : 1..n, phase : {"data", "csw"}]

BlkEnv(fail, k, tag) ==
    IF fail.at # k THEN EnvOk(tag)
    ELSE IF fail.phase = "data" THEN [EnvOk(tag) EXCEPT !.data = "err"]
    ELSE [EnvOk(tag) EXCEPT !.csw = "err"]

(***************************************************************************)
(* UsbBlockDevice (usbh-scsi storage/block_device.rs)                      *)
(* dev is [medium, block_size, max_lba, pos, fail].                        *)
(***************************************************************************)
TAG_READ == 17
TAG_RMW_READ == 18
TAG_RMW_WRITE == 19
TAG_TAIL_READ == 20
TAG_TAIL_WRITE == 21
TAG_WHOLE_WRITE == 22
TAG_READ_AT == 33

disk_size(dev) == (dev.max_lba + 1) * dev.block_size

\* the result of read_blocks once execute_command returned r
read_blocks_done(r, dev, tag, lba, count, buf_len) ==
    [res |-> r.res,
     data |-> IF r.res = "ok"
              THEN DevRead(dev.medium, dev.block_size, lba, count) ELSE <<>>,
     cmds |-> <<[op |-> "READ10", tag |-> tag, lba |-> lba, count |-> count,
                 data_len |-> buf_len, res |-> r.res]>>]

\* read_blocks(tag, lba, count, buf): assert the length, then READ(10), IN
read_blocks(dev, tag, lba, count, buf_len, env) ==
    IF buf_len # dev.block_size * count
    THEN [res |-> "panic", data |-> <<>>, cmds |-> <<>>]
    ELSE read_blocks_done(
             execute_command(TRUE, tag, buf_len, "In",
                             Read10Command_new(0, lba, count), TRUE, buf_len, env),
             dev, tag, lba, count, buf_len)

\* the result of write_blocks once execute_command returned r; the medium holds
\* the blocks once the data phase completed
write_blocks_done(r, dev, tag, lba, count, buf, env) ==
    [res |-> r.res,
     medium |-> IF r.res = "ok" \/ (env.cbw # "err" /\ env.data # "err")
                THEN DevWrite(dev.medium, dev.block_size, lba, buf)
                ELSE dev.medium,
     cmds |-> <<[op |-> "WRITE10", tag |-> tag, lba |-> lba, count |-> count,
                 data_len |-> Len(buf), res |-> r.res]>>]

\* write_blocks(tag, lba, count, buf): assert the length, then WRITE(10), OUT
write_blocks(dev, tag, lba, count, buf, env) ==
    IF Len(buf) # dev.block_size * count
    THEN [res |-> "panic", medium |-> dev.medium, cmds |-> <<>>]
    ELSE write_blocks_done(
             execute_command(TRUE, tag, Len(buf), "Out",
                             Write10Command_new(0, lba, count), TRUE, Len(buf),
                             env),
             dev, tag, lba, count, buf, env)

\* lines 157-161: `?` on read_blocks, copy tmp[offset .. offset + want), advance
read_done(r, dev, want, offset_in_block) ==
    IF r.res # "ok"
    THEN [res |-> r.res, ret |-> 0, data |-> <<>>, pos |-> dev.pos,
          cmds |-> r.cmds]
    ELSE [res |-> "ok", ret |-> want,
          data |-> SubSeq(r.data, offset_in_block + 1, offset_in_block + want),
          pos |-> dev.pos + want,
          cmds |-> r.cmds]

\* lines 148-157: the blocks that cover [pos, pos + want), read in one READ(10)
read_staged(dev, want, bs, offset_in_block, total_blocks) ==
    read_done(read_blocks(dev, TAG_READ, dev.pos \div bs, AsU16(total_blocks),
                          total_blocks * bs, BlkEnv(dev.fail, 1, TAG_READ)),
              dev, want, offset_in_block)

\* impl Read for UsbBlockDevice: read(out), out of n bytes.  dev.fail names the
\* block command that fails in this call.
UsbBlockDevice_read(dev, n) ==
    LET remaining_on_disk == Max(disk_size(dev) - dev.pos, 0)
        want == Min(n, remaining_on_disk)
        bs == dev.block_size
        offset_in_block == dev.pos % bs
    IN  IF n = 0 \/ remaining_on_disk = 0
        THEN [res |-> "ok", ret |-> 0, data |-> <<>>, pos |-> dev.pos,
              cmds |-> <<>>]
        ELSE read_staged(dev, want, bs, offset_in_block,
                         (offset_in_block + want + bs - 1) \div bs)

\* read_at lines 115-127: `?` on execute_command, copy tmp[offset .. offset +
\* want); the position is not touched
read_at_done(r, dev, p, want, bs, offset_in_block, total_blocks) ==
    [res |-> r.res,
     ret |-> IF r.res = "ok" THEN want ELSE 0,
     data |-> IF r.res = "ok"
              THEN SubSeq(DevRead(dev.medium, bs, p \div bs, total_blocks),
                          offset_in_block + 1, offset_in_block + want)
              ELSE <<>>,
     pos |-> dev.pos,
     cmds |-> <<[op |-> "READ10", tag |-> TAG_READ_AT, lba |-> p \div bs,
                 count |-> AsU16(total_blocks), data_len |-> total_blocks * bs,
                 res |-> r.res]>>]

\* read_at lines 103-124: one READ(10) of `total_blocks as u16` blocks into a
\* buffer of total_blocks blocks.  A device asked for fewer blocks than the
\* buffer holds sends fewer bytes: the data transfer ends short.
read_at_staged(dev, p, want, bs, offset_in_block, total_blocks) ==
    read_at_done(
        execute_command(TRUE, TAG_READ_AT, total_blocks * bs, "In",
                        Read10Command_new(0, p \div bs, AsU16(total_blocks)),
                        TRUE, total_blocks * bs,
                        IF AsU16(total_blocks) # total_blocks
                        THEN [EnvOk(TAG_READ_AT) EXCEPT !.data = "short"]
                        ELSE BlkEnv(dev.fail, 1, TAG_READ_AT)),
        dev, p, want, bs, offset_in_block, total_blocks)

\* UsbBlockDevice::read_at(pos, buf), buf of n bytes (impl ReadAt)
UsbBlockDevice_read_at(dev, p, n) ==
    LET remaining_on_disk == Max(disk_size(dev) - p, 0)
        want == Min(n, remaining_on_disk)
        bs == dev.block_size
        offset_in_block == p % bs
    IN  IF n = 0 \/ remaining_on_disk = 0
        THEN [res |-> "ok", ret |-> 0, data |-> <<>>, pos |-> dev.pos,
              cmds |-> <<>>]
        ELSE read_at_staged(dev, p, want, bs, offset_in_block,
                            (offset_in_block + want + bs - 1) \div bs)

\* overwrite tmp[off .. off + Len(part)) with part  (copy_from_slice)
Overlay(tmp, off, part) ==
    [i \in 1..Len(tmp) |->
        IF i > off /\ i <= off + Len(part) THEN part[i - off] ELSE tmp[i]]

\* The loop of write keeps s = [medium, pos, written, cur_lba, offset_in_block,
\* k, res, cmds]; k counts the block commands issued so far in the call.

\* a write-back that advances the position although the WRITE(10) failed
rmw_written_counts_failed(w, s, copy_len, cmds) ==
    [s EXCEPT !.res = w.res, !.medium = w.medium,
              !.written = s.written + copy_len,
              !.pos = s.pos + copy_len,
              !.cur_lba = s.cur_lba + 1,
              !.offset_in_block = 0,
              !.k = s.k + 2,
              !.cmds = cmds \o w.cmds]

\* after the WRITE(10) w of a patched block: `?`, then advance by copy_len
rmw_written(w, s, copy_len, cmds) ==
    IF w.res # "ok"
    THEN [s EXCEPT !.res = w.res, !.k = s.k + 2, !.medium = w.medium,
                   !.cmds = cmds \o w.cmds]
    ELSE [s EXCEPT !.medium = w.medium,
                   !.written = s.written + copy_len,
                   !.pos = s.pos + copy_len,
                   !.cur_lba = s.cur_lba + 1,
                   !.offset_in_block = 0,
                   !.k = s.k + 2,
                   !.cmds = cmds \o w.cmds]

\* after the READ(10) r of the block: `?`, patch tmp from src, write it back
rmw_read(r, dev, s, src, copy_len, tag_w) ==
    IF r.res # "ok"
    THEN [s EXCEPT !.res = r.res, !.k = s.k + 1, !.cmds = s.cmds \o r.cmds]
    ELSE rmw_written(
             write_blocks([dev EXCEPT !.medium = s.medium], tag_w, s.cur_lba, 1,
                          Overlay(r.data, s.offset_in_block,
                                  SubSeq(src, s.written + 1, s.written + copy_len)),
                          BlkEnv(dev.fail, s.k + 2, tag_w)),
             s, copy_len, s.cmds \o r.cmds)

\* a partial block written from a zeroed buffer, without the read
rmw_without_read(dev, s, src, copy_len, tag_r, tag_w) ==
    rmw_written(
        write_blocks([dev EXCEPT !.medium = s.medium], tag_w, s.cur_lba, 1,
                     Overlay([i \in 1..dev.block_size |-> 0], s.offset_in_block,
                             SubSeq(src, s.written + 1, s.written + copy_len)),
                     BlkEnv(dev.fail, s.k + 2, tag_w)),
        s, copy_len, s.cmds)

\* One block read, patched and written back: the read-modify-write arms of the
\* loop (lines 187-203 and 207-222)
rmw_one_block(dev, s, src, copy_len, tag_r, tag_w) ==
    rmw_read(read_blocks([dev EXCEPT !.medium = s.medium], tag_r, s.cur_lba, 1,
                         dev.block_size, BlkEnv(dev.fail, s.k + 1, tag_r)),
             dev, s, src, copy_len, tag_w)

\* after the WRITE(10) w of whole blocks: `?`, then advance by byte_len
whole_written(w, s, whole_blocks, byte_len) ==
    IF w.res # "ok"
    THEN [s EXCEPT !.res = w.res, !.k = s.k + 1, !.medium = w.medium,
                   !.cmds = s.cmds \o w.cmds]
    ELSE [s EXCEPT !.medium = w.medium,
                   !.written = s.written + byte_len,
                   !.pos = s.pos + byte_len,
                   !.cur_lba = s.cur_lba + whole_blocks,
                   !.offset_in_block = 0,
                   !.k = s.k + 1,
                   !.cmds = s.cmds \o w.cmds]

\* the last arm of the loop (lines 224-236): N whole blocks straight from src
write_whole_blocks(dev, s, src, whole_blocks) ==
    whole_written(
        write_blocks([dev EXCEPT !.medium = s.medium], TAG_WHOLE_WRITE, s.cur_lba,
                     AsU16(whole_blocks),
                     SubSeq(src, s.written + 1,
                            s.written + whole_blocks * dev.block_size),
                     BlkEnv(dev.fail, s.k + 1, TAG_WHOLE_WRITE)),
        s, whole_blocks, whole_blocks * dev.block_size)

\* one iteration of the loop body (lines 184-236)
write_iteration(dev, s, src, chunk_left, bs) ==
    IF s.offset_in_block # 0 \/ chunk_left < bs
    THEN rmw_one_block(dev, s, src, Min(bs - s.offset_in_block, chunk_left),
                       TAG_RMW_READ, TAG_RMW_WRITE)
    ELSE IF chunk_left \div bs = 0
    THEN rmw_one_block(dev, s, src, chunk_left, TAG_TAIL_READ, TAG_TAIL_WRITE)
    ELSE write_whole_blocks(dev, s, src, chunk_left \div bs)

\* while written < want { ... }  (lines 183-237); an error or a panic leaves it
RECURSIVE write_loop(_, _, _, _)
write_loop(dev, s, src, want) ==
    IF s.res # "ok" \/ s.written >= want THEN s
    ELSE write_loop(dev,
                    write_iteration(dev, s, src, want - s.written, dev.block_size),
                    src, want)

\* line 239: Ok(written), or the error that left the loop
write_done(s) ==
    [res |-> s.res, ret |-> IF s.res = "ok" THEN s.written ELSE 0,
     medium |-> s.medium, pos |-> s.pos, cmds |-> s.cmds]

\* impl Write for UsbBlockDevice: write(src).  dev.fail names the block command
\* that fails in this call.
UsbBlockDevice_write(dev, src) ==
    LET remaining_on_disk == Max(disk_size(dev) - dev.pos, 0)
        bs == dev.block_size
    IN  IF Len(src) = 0 \/ remaining_on_disk = 0
        THEN [res |-> "ok", ret |-> 0, medium |-> dev.medium, pos |-> dev.pos,
              cmds |-> <<>>]
        ELSE write_done(
                 write_loop(dev,
                            [medium |-> dev.medium, pos |-> dev.pos, written |-> 0,
                             cur_lba |-> dev.pos \div bs,
                             offset_in_block |-> dev.pos % bs,
                             k |-> 0, res |-> "ok", cmds |-> <<>>],
                            src, Min(Len(src), remaining_on_disk)))

\* a seek that does not clamp to the end of the disk
seek_unclamped(dev, whence, off) ==
    LET dst == CASE whence = "Start" -> off
                 [] whence = "End" -> disk_size(dev) + off
                 [] whence = "Current" -> dev.pos + off
    IN  IF dst < 0
        THEN [res |-> "err", ret |-> 0, pos |-> dev.pos]
        ELSE [res |-> "ok", ret |-> dst, pos |-> dst]

\* a seek that takes a target before the start for the start
seek_negative_to_start(dev, whence, off) ==
    LET disk == disk_size(dev)
        dst == CASE whence = "Start" -> off
                 [] whence = "End" -> disk + off
                 [] whence = "Current" -> dev.pos + off
    IN  IF dst < 0
        THEN [res |-> "ok", ret |-> 0, pos |-> 0]
        ELSE [res |-> "ok", ret |-> Min(dst, disk), pos |-> Min(dst, disk)]

\* a seek that takes Current(off) from the start of the disk
seek_current_from_start(dev, whence, off) ==
    LET disk == disk_size(dev)
        dst == CASE whence = "Start" -> off
                 [] whence = "End" -> disk + off
                 [] whence = "Current" -> off
    IN  IF dst < 0
        THEN [res |-> "err", ret |-> 0, pos |-> dev.pos]
        ELSE [res |-> "ok", ret |-> Min(dst, disk), pos |-> Min(dst, disk)]

\* impl Seek for UsbBlockDevice: seek(pos); whence is "Start", "End", "Current"
UsbBlockDevice_seek(dev, whence, off) ==
    LET disk == disk_size(dev)
        dst == CASE whence = "Start" -> off
                 [] whence = "End" -> disk + off
                 [] whence = "Current" -> dev.pos + off
    IN  IF dst < 0
        THEN [res |-> "err", ret |-> 0, pos |-> dev.pos]
        ELSE [res |-> "ok", ret |-> Min(dst, disk), pos |-> Min(dst, disk)]

(***************************************************************************)
(* SpecBlk: a UsbBlockDevice after UsbBlockDevice::new, under any sequence *)
(* of read, write, seek and read_at calls.  A panic ends the run.          *)
(***************************************************************************)
Dev(fail) == [medium |-> medium, block_size |-> block_size,
              max_lba |-> max_lba, pos |-> pos, fail |-> fail]

Geometries ==
    {g \in (0..MaxBs) \X (0..(MaxBlocks - 1)) : (g[2] + 1) * g[1] <= MaxDiskBytes}

Offsets == (0 - MaxSeek)..(MaxDiskBytes + 1)

NoOp == [op |-> "none", p |-> 0, n |-> 0, src |-> <<>>, data |-> <<>>,
         res |-> "ok", ret |-> 0, cmds |-> <<>>]

NoView == [built |-> "none", start |-> 0, len |-> 0]
NoViewOp == [op |-> "none", n |-> 0, res |-> "ok", err |-> "", ret |-> 0,
             io |-> <<>>]
NoBotOp == [tag |-> 0, direction |-> "In", has_buf |-> FALSE, res |-> "none",
            err |-> "", csw |-> NoCsw, cmd |-> InquiryCommand_new(0),
            data_len |-> 0, sent |-> <<>>]
NoElf == [phdrs |-> FALSE, segs |-> <<>>, build |-> "none", board |-> "none"]
NoConv == [pc |-> "idle", res |-> "none"]

ViewIdle == view = NoView /\ viewOp = NoViewOp
NoUsb == [st |-> "none", config |-> <<>>, handle |-> "none",
          interface_number |-> 0, claimed |-> {}, opens |-> 0, halted |-> {}]
NoOut == [res |-> "none", err |-> "", n |-> 0, bus |-> <<>>]
NoMscOp == [op |-> "none", res |-> "ok", calls |-> <<>>, had |-> {},
            out |-> NoOut]

BotIdle ==
    /\ transport = FALSE
    /\ busLog = <<>>
    /\ botOp = NoBotOp
    /\ usb = NoUsb
    /\ mscOp = NoMscOp
Uf2Idle == elf = NoElf /\ conv = NoConv
NoDeploy == [pc |-> "idle", len |-> 0, sent |-> 0, mount |-> "none",
             created |-> FALSE, writes |-> <<>>, flush |-> "none",
             ret |-> "none", progress |-> <<>>]
NoFile == [exists |-> FALSE, created |-> FALSE, written |-> 0, ret |-> "none"]
NoStorage == [usbs |-> <<>>, op |-> "none", dev |-> 0, res |-> "none", err |-> "",
              parts |-> <<>>]
NoPlugged == [pc |-> "idle", family |-> FALSE, i |-> 0, partitions |-> <<>>,
              j |-> 0, listed |-> {}, created |-> {}, visited |-> <<>>,
              ret |-> "none"]
StoIdle == storage = NoStorage /\ plugged = NoPlugged
CliIdle == deploy = NoDeploy /\ outFile = NoFile /\ StoIdle

Alive == lastOp.res # "panic"

\* after UsbBlockDevice::new: READ CAPACITY(10) gave block_size and max_lba
InitBlk ==
    /\ \E g \in Geometries :
          /\ block_size = g[1]
          /\ max_lba = g[2]
          /\ medium \in [1..((g[2] + 1) * g[1]) -> Bytes]
    /\ pos = 0
    /\ lastOp = NoOp
    /\ ViewIdle
    /\ BotIdle
    /\ Uf2Idle
    /\ CliIdle

\* the buffers handed to write: every one shorter than MaxBuf, and of the
\* longest those whose bytes alternate
Sources ==
    SeqsUpTo(Bytes, MaxBuf - 1)
    \cup {[i \in 1..MaxBuf |-> (i + b) % (MaxByte + 1)] : b \in Bytes}

\* a transfer can fail at any of the commands the call issues
ReadCmds(n) == Len(UsbBlockDevice_read(Dev(NoFail), n).cmds)
WriteCmds(src) == Len(UsbBlockDevice_write(Dev(NoFail), src).cmds)

BlkRead ==
    /\ Alive
    /\ \E n \in 0..MaxBuf :
         \E fail \in FailChoices(ReadCmds(n)) :
           \E r \in {UsbBlockDevice_read(Dev(fail), n)} :
               /\ pos' = r.pos
               /\ lastOp' = [op |-> "read", p |-> pos, n |-> n, src |-> <<>>,
                             data |-> r.data, res |-> r.res, ret |-> r.ret,
                             cmds |-> r.cmds]
    /\ UNCHANGED <<medium, block_size, max_lba, viewVars, botVars, uf2Vars, cliVars>>

BlkWrite ==
    /\ Alive
    /\ \E src \in Sources :
         \E fail \in FailChoices(WriteCmds(src)) :
           \E r \in {UsbBlockDevice_write(Dev(fail), src)} :
               /\ medium' = r.medium
               /\ pos' = r.pos
               /\ lastOp' = [op |-> "write", p |-> pos, n |-> Len(src),
                             src |-> src, data |-> <<>>, res |-> r.res,
                             ret |-> r.ret, cmds |-> r.cmds]
    /\ UNCHANGED <<block_size, max_lba, viewVars, botVars, uf2Vars, cliVars>>

BlkSeek ==
    /\ Alive
    /\ \E whence \in {"Start", "End", "Current"}, off \in Offsets :
          LET r == UsbBlockDevice_seek(Dev(NoFail), whence, off)
          IN  /\ whence = "Start" => off >= 0
              /\ pos' = r.pos
              /\ lastOp' = [op |-> "seek", p |-> pos, n |-> off, src |-> <<>>,
                            data |-> <<>>, res |-> r.res, ret |-> r.ret,
                            cmds |-> <<>>]
    /\ UNCHANGED <<medium, block_size, max_lba, viewVars, botVars, uf2Vars, cliVars>>

\* read_at(p, buf) through the ReadAt trait, at any offset up to one byte
\* past the end of the disk (every offset past the end behaves alike)
BlkReadAt ==
    /\ Alive
    /\ \E p \in 0..((max_lba + 1) * block_size + 1), n \in 0..MaxBuf :
         \E fail \in FailChoices(Len(UsbBlockDevice_read_at(Dev(NoFail), p, n).cmds)) :
           \E r \in {UsbBlockDevice_read_at(Dev(fail), p, n)} :
               /\ pos' = r.pos
               /\ lastOp' = [op |-> "read_at", p |-> p, n |-> n, src |-> <<>>,
                             data |-> r.data, res |-> r.res, ret |-> r.ret,
                             cmds |-> r.cmds]
    /\ UNCHANGED <<medium, block_size, max_lba, viewVars, botVars, uf2Vars, cliVars>>

NextBlk == BlkRead \/ BlkWrite \/ BlkSeek \/ BlkReadAt

SpecBlk == InitBlk /\ [][NextBlk]_vars

\* C1: a write of W at p with p + |W| <= disk_size that succeeds is read back
\* by seek(Start(p)) and a read of |W| bytes as exactly W, and no byte of the
\* disk outside [p, p + |W|) changes.
C1_RmwCorrect ==
    [][(/\ lastOp'.op = "write"
        /\ lastOp'.res = "ok"
        /\ lastOp'.p + lastOp'.n <= disk_size(Dev(NoFail)))
       => LET at == UsbBlockDevice_seek(Dev(NoFail), "Start", lastOp'.p)
              back == UsbBlockDevice_read(
                          [medium |-> medium', block_size |-> block_size,
                           max_lba |-> max_lba, pos |-> at.pos, fail |-> NoFail],
                          lastOp'.n)
          IN  /\ back.res = "ok"
              /\ back.data = lastOp'.src
              /\ \A i \in 1..Len(medium) :
                     (i <= lastOp'.p \/ i > lastOp'.p + lastOp'.n)
                         => medium'[i] = medium[i]]_vars

\* the bytes of block b that a write of want bytes at p covers
CoveredOf(b, bs, p, want) ==
    {a \in (b * bs)..(b * bs + bs - 1) : a >= p /\ a < p + want}

\* the bytes the last write had to store: min(|src|, disk_size - p)
WantOfWrite == Min(lastOp.n, Max(disk_size(Dev(NoFail)) - lastOp.p, 0))

C14_PositionInDisk ==
    /\ pos >= 0
    /\ pos <= (max_lba + 1) * block_size

\* a write that failed at a later command after it had advanced the position
C14_Witness ==
    /\ lastOp.op = "write"
    /\ lastOp.res = "err"
    /\ pos > lastOp.p
    /\ pos < (max_lba + 1) * block_size

\* the device of the current state after a seek that returned r
DevAfterSeek(r) ==
    [medium |-> medium, block_size |-> block_size, max_lba |-> max_lba,
     pos |-> r.pos, fail |-> NoFail]

\* C15: on a UsbBlockDevice in any reachable state, seek(Start(x)) returns
\* min(x, disk_size) and a following seek(Current(0)) returns the same value;
\* seek(End(0)) returns disk_size; seek(End(k)) with k > 0 returns disk_size.
\* A seek that has returned Ok left the position at the value it returned.
C15_SeekLaws ==
    LET disk == (max_lba + 1) * block_size
    IN  /\ \A x \in 0..(MaxDiskBytes + 1) :
             LET r == UsbBlockDevice_seek(Dev(NoFail), "Start", x)
                 t == UsbBlockDevice_seek(DevAfterSeek(r), "Current", 0)
             IN  /\ r.res = "ok" /\ r.ret = Min(x, disk)
                 /\ t.res = "ok" /\ t.ret = r.ret
        /\ \A k \in 0..(MaxDiskBytes + 1) :
             LET r == UsbBlockDevice_seek(Dev(NoFail), "End", k)
             IN  r.res = "ok" /\ r.ret = disk
        /\ (lastOp.op = "seek" /\ lastOp.res = "ok") => pos = lastOp.ret

\* a seek from position 0 to a target past the end of a disk that is not
\* empty has returned disk_size
C15_Witness ==
    /\ lastOp.op = "seek"
    /\ lastOp.res = "ok"
    /\ lastOp.p = 0
    /\ lastOp.n > (max_lba + 1) * block_size
    /\ (max_lba + 1) * block_size > 0
    /\ lastOp.ret = (max_lba + 1) * block_size
    /\ pos = lastOp.ret

\* the bytes a read at lastOp.p with a buffer of lastOp.n bytes is to return,
\* and the blocks that cover them
WantOfRead == Min(lastOp.n, Max((max_lba + 1) * block_size - lastOp.p, 0))
BlocksOfRead ==
    ((lastOp.p % block_size) + WantOfRead + block_size - 1) \div block_size

\* what C18 says of a read that the bus and the device did not fail
ReadAsClaimed ==
    /\ lastOp.res = "ok"
    /\ lastOp.ret = WantOfRead
    /\ lastOp.data = [i \in 1..WantOfRead |-> medium[lastOp.p + i]]
    /\ pos = lastOp.p + WantOfRead
    /\ IF WantOfRead = 0
       THEN lastOp.cmds = <<>>
       ELSE /\ Len(lastOp.cmds) = 1
            /\ lastOp.cmds[1].op = "READ10"
            /\ lastOp.cmds[1].lba = lastOp.p \div block_size
            /\ lastOp.cmds[1].count = BlocksOfRead

\* C18: a read at position p with a buffer of n bytes returns want = min(n,
\* disk_size - p), copies the disk bytes [p, p + want), advances the position by
\* want and issues exactly one READ(10) at LBA p / block_size of
\* ceil((p mod block_size + want) / block_size) blocks; at p = disk_size or
\* n = 0 it returns 0 and issues no command.
C18_ByteGranularRead ==
    (lastOp.op = "read" /\ lastOp.res # "err") => ReadAsClaimed

\* The reads whose blocks a u16 can count are as C18 says.
C18_ReadOfU16Blocks ==
    (/\ lastOp.op = "read" /\ lastOp.res # "err"
     /\ (WantOfRead > 0 => BlocksOfRead < Pow2(U16Bits)))
    => ReadAsClaimed

(***************************************************************************)
(* PartitionView (usbh-fatfs/src/lib.rs): a window [start, start + len]    *)
(* over a UsbBlockDevice.  v is [built, start, len].  An operation returns *)
(* [res, err, ret, pos, medium, io]; io lists the byte ranges [from, to)   *)
(* of the disk that the reads and writes it forwarded to the device cover; *)
(* err is "WriteZero" for the error the view raises itself and "io" for an *)
(* error of the device.                                                    *)
(***************************************************************************)
\* PartitionView::new: seek the device to start; the struct literal of
\* list_partitions, list_uf2_partitions and deploy_to_usb leaves it where it is
PartitionView_new(dev, start) == UsbBlockDevice_seek(dev, "Start", start).pos

\* abs.saturating_sub(self.start), abs from inner.seek(Current(0))
current_rel_pos(dev, v) ==
    Max(UsbBlockDevice_seek(dev, "Current", 0).ret - v.start, 0)

\* rel.clamp(0, len)
clamp_rel(v, rel) == Max(0, Min(rel, v.len))

\* the bytes of the disk a forwarded call of want bytes at dev.pos covers
Forwarded(dev, kind, want) ==
    IF Min(dev.pos + want, disk_size(dev)) > dev.pos
    THEN <<[kind |-> kind, from |-> dev.pos,
            to |-> Min(dev.pos + want, disk_size(dev))]>>
    ELSE <<>>

\* lines 219-224: forward the read of want bytes, `?`, Ok(n)
view_read_forward(r, dev, want) ==
    [res |-> r.res, err |-> IF r.res = "err" THEN "io" ELSE "",
     ret |-> r.ret, pos |-> r.pos, medium |-> dev.medium,
     io |-> Forwarded(dev, "read", want)]

\* impl Read for PartitionView: read(buf), buf of n bytes
PartitionView_read(dev, v, n) ==
    IF n = 0 \/ current_rel_pos(dev, v) >= v.len
    THEN [res |-> "ok", err |-> "", ret |-> 0, pos |-> dev.pos,
          medium |-> dev.medium, io |-> <<>>]
    ELSE view_read_forward(
             UsbBlockDevice_read(dev, Min(n, v.len - current_rel_pos(dev, v))),
             dev, Min(n, v.len - current_rel_pos(dev, v)))

\* a forwarded write that hands on what the device returned, Ok(0) included
view_write_forward_plain(w, dev, want) ==
    [res |-> w.res, err |-> IF w.res = "err" THEN "io" ELSE "",
     ret |-> w.ret, pos |-> w.pos, medium |-> w.medium,
     io |-> Forwarded(dev, "write", want)]

\* lines 242-246: forward the write of want bytes, `?`, WriteZero, Ok(n)
view_write_forward(w, dev, want) ==
    [res |-> IF w.res = "ok" /\ w.ret = 0 /\ want # 0 THEN "err" ELSE w.res,
     err |-> IF w.res = "ok" /\ w.ret = 0 /\ want # 0 THEN "WriteZero"
             ELSE IF w.res = "err" THEN "io" ELSE "",
     ret |-> w.ret, pos |-> w.pos, medium |-> w.medium,
     io |-> Forwarded(dev, "write", want)]

\* impl Write for PartitionView: write(buf)
PartitionView_write(dev, v, src) ==
    IF Len(src) = 0 \/ current_rel_pos(dev, v) >= v.len
    THEN [res |-> "ok", err |-> "", ret |-> 0, pos |-> dev.pos,
          medium |-> dev.medium, io |-> <<>>]
    ELSE view_write_forward(
             UsbBlockDevice_write(
                 dev, SubSeq(src, 1, Min(Len(src), v.len - current_rel_pos(dev, v)))),
             dev, Min(Len(src), v.len - current_rel_pos(dev, v)))

\* lines 273-275: abs = start + rel_target; let _ = inner.seek(Start(abs))
view_seek_to(dev, v, rel_target) ==
    [res |-> "ok", err |-> "", ret |-> rel_target,
     pos |-> UsbBlockDevice_seek(dev, "Start", v.start + rel_target).pos,
     medium |-> dev.medium, io |-> <<>>]

\* impl Seek for PartitionView: seek(pos)
PartitionView_seek(dev, v, whence, off) ==
    view_seek_to(dev, v,
                 CASE whence = "Start" -> clamp_rel(v, off)
                   [] whence = "End" -> clamp_rel(v, v.len + off)
                   [] whence = "Current" ->
                          clamp_rel(v, current_rel_pos(dev, v) + off))

(***************************************************************************)
(* SpecView: a PartitionView over a UsbBlockDevice on a blank disk, built  *)
(* by PartitionView::new or by the struct literal over a device at         *)
(* position 0, under any sequence of read, write and seek calls on the     *)
(* view.  A panic ends the run.                                            *)
(***************************************************************************)
ViewAlive == viewOp.res # "panic"

InitView ==
    /\ \E g \in Geometries :
          /\ block_size = g[1]
          /\ max_lba = g[2]
          /\ medium = [i \in 1..((g[2] + 1) * g[1]) |-> 0]
    /\ \E built \in {"new", "literal"}, start \in 0..MaxViewStart,
          len \in 0..MaxViewLen :
          /\ view = [built |-> built, start |-> start, len |-> len]
          /\ pos = IF built = "new"
                   THEN PartitionView_new(
                            [medium |-> <<>>, block_size |-> block_size,
                             max_lba |-> max_lba, pos |-> 0, fail |-> NoFail],
                            start)
                   ELSE 0
    /\ lastOp = NoOp
    /\ viewOp = NoViewOp
    /\ BotIdle
    /\ Uf2Idle
    /\ CliIdle

ViewRead ==
    /\ ViewAlive
    /\ \E n \in 0..MaxBuf, fail \in FailChoices(1) :
        \E r \in {PartitionView_read(Dev(fail), view, n)} :
            /\ pos' = r.pos
            /\ viewOp' = [op |-> "read", n |-> n, res |-> r.res, err |-> r.err,
                          ret |-> r.ret, io |-> r.io]
            /\ UNCHANGED <<medium, block_size, max_lba, lastOp, view, botVars,
                           uf2Vars, cliVars>>

ViewWrite ==
    /\ ViewAlive
    /\ \E src \in Sources, fail \in FailChoices(1) :
        \E r \in {PartitionView_write(Dev(fail), view, src)} :
            /\ medium' = r.medium
            /\ pos' = r.pos
            /\ viewOp' = [op |-> "write", n |-> Len(src), res |-> r.res,
                          err |-> r.err, ret |-> r.ret, io |-> r.io]
            /\ UNCHANGED <<block_size, max_lba, lastOp, view, botVars, uf2Vars, cliVars>>

ViewSeek ==
    /\ ViewAlive
    /\ \E whence \in {"Start", "End", "Current"}, off \in Offsets :
        \E r \in {PartitionView_seek(Dev(NoFail), view, whence, off)} :
            /\ whence = "Start" => off >= 0
            /\ pos' = r.pos
            /\ viewOp' = [op |-> "seek", n |-> off, res |-> r.res, err |-> r.err,
                          ret |-> r.ret, io |-> r.io]
            /\ UNCHANGED <<medium, block_size, max_lba, lastOp, view, botVars,
                           uf2Vars, cliVars>>

NextView == ViewRead \/ ViewWrite \/ ViewSeek

SpecView == InitView /\ [][NextView]_vars

\* C2: every read and write a PartitionView forwards to the device covers only
\* bytes inside [start, start + len], whether the view was built by
\* PartitionView::new or by the struct literal over a device at position 0.
C2_ViewStaysInWindow ==
    \A i \in DOMAIN viewOp.io :
        /\ viewOp.io[i].from >= view.start
        /\ viewOp.io[i].to <= view.start + view.len

\* The views built by PartitionView::new do stay inside their window.
C2_NewViewStaysInWindow == view.built = "new" => C2_ViewStaysInWindow

\* the device of the current state after a view operation that returned r
DevAfterView(r) ==
    [medium |-> r.medium, block_size |-> block_size, max_lba |-> max_lba,
     pos |-> r.pos, fail |-> NoFail]

\* the relative target of seek(pos) on the view of the current state
ViewTarget(whence, off) ==
    CASE whence = "Start" -> off
      [] whence = "End" -> view.len + off
      [] whence = "Current" -> current_rel_pos(Dev(NoFail), view) + off

\* C16: for every start, len and device size, seek(pos) on a PartitionView
\* returns r = clamp(target, 0, len) and leaves the device at start + r, so that
\* a following seek(Current(0)) returns r; seek(Start(x)) then tell gives
\* min(x, len), seek(End(0)) then tell gives len, seek(End(k)), k > 0, gives len.
C16_ViewSeekLaws ==
    /\ \A whence \in {"Start", "End", "Current"}, off \in Offsets :
          (whence = "Start" => off >= 0) =>
             LET r == PartitionView_seek(Dev(NoFail), view, whence, off)
                 t == PartitionView_seek(DevAfterView(r), view, "Current", 0)
             IN  /\ r.res = "ok"
                 /\ r.ret = Max(0, Min(ViewTarget(whence, off), view.len))
                 /\ r.pos = view.start + r.ret
                 /\ t.res = "ok" /\ t.ret = r.ret
    /\ (viewOp.op = "seek" /\ viewOp.res = "ok") => pos = view.start + viewOp.ret

\* The laws of C16 hold for the windows that end inside the disk.
C16_ViewSeekLawsInsideDisk ==
    view.start + view.len <= (max_lba + 1) * block_size => C16_ViewSeekLaws

\* C17: a read or write of a PartitionView whose relative position is at or
\* past len returns 0 and issues no I/O on the device; below len it forwards at
\* most len - relative position bytes; a write that forwards a non-empty slice
\* of which the device writes nothing fails with WriteZero, it does not return 0.
C17_EndOfWindow ==
    [][viewOp'.op \in {"read", "write"} =>
       LET rel == current_rel_pos(Dev(NoFail), view)
       IN  /\ rel >= view.len =>
                /\ viewOp'.res = "ok" /\ viewOp'.ret = 0
                /\ viewOp'.io = <<>>
                /\ pos' = pos /\ medium' = medium
           /\ rel < view.len =>
                /\ viewOp'.ret <= view.len - rel
                /\ pos' - pos <= view.len - rel
                /\ \A i \in DOMAIN viewOp'.io :
                      viewOp'.io[i].to - viewOp'.io[i].from <= view.len - rel
           /\ (/\ viewOp'.op = "write" /\ viewOp'.n > 0 /\ rel < view.len
               /\ UsbBlockDevice_write(Dev(NoFail), <<0>>).res = "ok"
               /\ UsbBlockDevice_write(Dev(NoFail), <<0>>).ret = 0)
              => viewOp'.res = "err" /\ viewOp'.err = "WriteZero"
           /\ (viewOp'.op = "write" /\ viewOp'.n > 0 /\ rel < view.len
               /\ viewOp'.res = "ok") => viewOp'.ret > 0
      ]_vars

\* a write inside the window, with the device at the end of the disk, has
\* failed with WriteZero
C17_Witness ==
    /\ viewOp.op = "write"
    /\ viewOp.n > 0
    /\ viewOp.res = "err"
    /\ viewOp.err = "WriteZero"
    /\ pos - view.start < view.len

(***************************************************************************)
(* SpecBot: execute_command calls on one UsbMassStorage<Opened>, with or   *)
(* without a Bulk-Only transport, against a bus and a device that may fail *)
(* or cut short any transfer and may answer any CSW.  A panic ends the run.*)
(***************************************************************************)
Tags == 1..MaxTag

\* bCSWStatus: passed, failed, phase error
CswStatus == {0, 1, 2}

\* what the bus and the device do to one command; the parts a command never
\* reaches are left at their defaults
BotEnvs ==
    {e \in [cbw : Outcomes, data : Outcomes, csw : Outcomes,
            sig_ok : BOOLEAN, csw_tag : Tags, status : CswStatus] :
        /\ e.cbw = "err" => e.data = "ok"
        /\ (e.cbw = "err" \/ e.data = "err") => e.csw = "ok"
        /\ (e.cbw = "err" \/ e.data = "err" \/ e.csw # "ok")
               => (e.sig_ok /\ e.csw_tag = 1 /\ e.status = 0)}

\* the calls of execute_command: the command, its direction and whether a
\* data buffer is given.  INQUIRY, READ CAPACITY(10) and READ(10) read into a
\* buffer and WRITE(10) writes one; two calls have no data phase.
BotCalls ==
    {[cmd |-> InquiryCommand_new(36), direction |-> "In", has_buf |-> TRUE],
     [cmd |-> ReadCapacity10Command_new(0), direction |-> "In", has_buf |-> TRUE],
     [cmd |-> Read10Command_new(1, 16909060, 258), direction |-> "In",
      has_buf |-> TRUE],
     [cmd |-> Write10Command_new(0, 1, 1), direction |-> "Out", has_buf |-> TRUE],
     [cmd |-> InquiryCommand_new(36), direction |-> "Out", has_buf |-> FALSE],
     [cmd |-> Read10Command_new(0, 0, 0), direction |-> "In", has_buf |-> FALSE]}

CallsOnBus == Cardinality({i \in DOMAIN busLog : busLog[i].kind = "CBW"})

\* after open: the device has a Bulk-Only interface or it has none
InitBot ==
    /\ transport \in BOOLEAN
    /\ busLog = <<>>
    /\ botOp = NoBotOp
    /\ usb = NoUsb
    /\ mscOp = NoMscOp
    /\ medium = <<>> /\ block_size = 0 /\ max_lba = 0 /\ pos = 0 /\ lastOp = NoOp
    /\ ViewIdle
    /\ Uf2Idle
    /\ CliIdle

BotExecute ==
    /\ botOp.res # "panic"
    /\ CallsOnBus < MaxCalls
    /\ \E tag \in Tags, call \in BotCalls, env \in BotEnvs :
          /\ ~call.has_buf => env.data = "ok"
          /\ \E r \in {execute_command(
                            transport, tag, IF call.has_buf THEN MaxData ELSE 0,
                            call.direction, call.cmd, call.has_buf,
                            IF call.has_buf THEN MaxData ELSE 0, env)} :
                /\ busLog' = busLog \o r.bus
                /\ botOp' = [tag |-> tag, direction |-> call.direction,
                             has_buf |-> call.has_buf, res |-> r.res,
                             err |-> r.err, csw |-> r.csw, cmd |-> call.cmd,
                             data_len |-> IF call.has_buf THEN MaxData ELSE 0,
                             sent |-> r.bus]
    /\ UNCHANGED <<transport, usb, mscOp, blkVars, viewVars, uf2Vars, cliVars>>

NextBot == BotExecute

SpecBot == InitBot /\ [][NextBot]_vars

\* C9: the transfers on the bus are a concatenation of complete commands: a
\* CBW is written only as the first transfer or after the CSW of the command
\* before it was read, also when calls fail.
C9_CommandsComplete ==
    \A i \in 2..Len(busLog) :
        busLog[i].kind = "CBW"
            => (busLog[i - 1].kind = "CSW" /\ busLog[i - 1].done = "ok")

\* C10: execute_command returns success only when the CSW it read has the
\* signature 0x53425355, the tag of the CBW it sent and status 0.
C10_CswValidated ==
    botOp.res = "ok"
        => /\ botOp.csw.read
           /\ botOp.csw.sig_ok
           /\ botOp.csw.tag = botOp.tag
           /\ botOp.csw.status = 0

(***************************************************************************)
(* Opening and teardown of a UsbMassStorage (usbh-scsi storage/mod.rs).    *)
(* usb is [st, config, handle, interface_number, claimed, opens, halted]:  *)
(* st is "Closed", "Opened" or "Gone" (the value was consumed or dropped), *)
(* config the interface descriptors of the configuration, claimed the      *)
(* interfaces the handle holds, halted the bulk endpoints ("in", "out")    *)
(* that stalled and were not cleared.  A handle call is [call, n, done].   *)
(* mscOp.out is the result of the last write, read or get_max_lun.         *)
(***************************************************************************)
\* open calls on one device in a run
MaxOpens == 2

\* write, read and get_max_lun calls in a run
MaxRaw == 1

\* the largest LUN a device answers GET_MAX_LUN with
MaxLun == 1

HandleCall(call, n, done) == [call |-> call, n |-> n, done |-> done]

NoTransport == [some |-> FALSE, interface_number |-> 0]

\* a search that takes an interface of any protocol
RECURSIVE find_transport_any_protocol(_, _, _)
find_transport_any_protocol(config, i, found) ==
    IF i > Len(config) THEN found
    ELSE find_transport_any_protocol(
             config, i + 1,
             IF config[i].class_code # 8 \/ config[i].sub_class_code # 6
             THEN found
             ELSE IF config[i].bulk_in /\ config[i].bulk_out
             THEN [some |-> TRUE,
                   interface_number |-> config[i].interface_number]
             ELSE found)

\* lines 173-220: the last interface that is mass storage (class 0x08), SCSI
\* transparent (subclass 0x06), Bulk-Only (protocol 0x50) and has a bulk IN and
\* a bulk OUT endpoint
RECURSIVE find_transport(_, _, _)
find_transport(config, i, found) ==
    IF i > Len(config) THEN found
    ELSE find_transport(
             config, i + 1,
             IF config[i].class_code # 8 \/ config[i].sub_class_code # 6
             THEN found
             ELSE IF config[i].protocol_code # 80
             THEN found
             ELSE IF config[i].bulk_in /\ config[i].bulk_out
             THEN [some |-> TRUE,
                   interface_number |-> config[i].interface_number]
             ELSE found)

\* dropping a DeviceHandle closes it: the claims it holds end with it
handle_dropped(r) ==
    [r EXCEPT !.handle = "none", !.claimed = {},
              !.calls = r.calls \o <<HandleCall("close", 0, "ok")>>]

\* lines 222-252: claim the interface of the transport found, if any
open_claim(config, t, env) ==
    IF ~t.some
    THEN [res |-> "ok", err |-> "", handle |-> "open", transport |-> t,
          claimed |-> {}, calls |-> <<HandleCall("open", 0, "ok")>>]
    ELSE IF env.claim = "err"
    THEN handle_dropped(
             [res |-> "err", err |-> "FailedToClaimInterfaceFromUsbDevice",
              handle |-> "open", transport |-> NoTransport, claimed |-> {},
              calls |-> <<HandleCall("open", 0, "ok"),
                          HandleCall("claim_interface", t.interface_number,
                                     "err")>>])
    ELSE [res |-> "ok", err |-> "", handle |-> "open", transport |-> t,
          claimed |-> {t.interface_number},
          calls |-> <<HandleCall("open", 0, "ok"),
                      HandleCall("claim_interface", t.interface_number, "ok")>>]

\* UsbMassStorage<Closed>::open.  env.open, env.config and env.claim are the
\* outcomes of device.open(), config_descriptor_by_number and claim_interface.
UsbMassStorage_open(config, env) ==
    IF env.open = "err"
    THEN [res |-> "err", err |-> "FailedToOpenUsbDevice", handle |-> "none",
          transport |-> NoTransport, claimed |-> {},
          calls |-> <<HandleCall("open", 0, "err")>>]
    ELSE IF env.config # "ok"
    THEN handle_dropped(
             [res |-> "err", err |-> "FailedToOpenUsbDevice", handle |-> "open",
              transport |-> NoTransport, claimed |-> {},
              calls |-> <<HandleCall("open", 0, "ok")>>])
    ELSE open_claim(config, find_transport(config, 1, NoTransport), env)

\* a drop that resets the handle and leaves the interface to the handle
Opened_drop_without_release(u, has_transport, env) ==
    handle_dropped(
        [handle |-> u.handle,
         claimed |-> u.claimed,
         calls |-> <<HandleCall("reset", 0, env.reset)>>])

\* impl Drop for Opened: reset the handle, release the interface of the
\* transport, both results ignored; then the handle field is dropped
Opened_drop(u, has_transport, env) ==
    handle_dropped(
        [handle |-> u.handle,
         claimed |-> IF has_transport /\ env.release = "ok"
                     THEN u.claimed \ {u.interface_number} ELSE u.claimed,
         calls |-> <<HandleCall("reset", 0, env.reset)>>
                   \o (IF has_transport
                       THEN <<HandleCall("release_interface", u.interface_number,
                                         env.release)>>
                       ELSE <<>>)])

\* UsbMassStorage<Opened>::close: the fields but extra move to the Closed
\* value; extra, the Opened, is dropped
UsbMassStorage_close(u, has_transport, env) == Opened_drop(u, has_transport, env)

(***************************************************************************)
(* SpecMsc: one UsbMassStorage from Closed on, under any sequence of open, *)
(* execute_command, close and drop, with any outcome of the handle calls.  *)
(* A panic in execute_command unwinds and drops the value.                 *)
(***************************************************************************)
\* the interface descriptors a configuration is made of: a Bulk-Only SCSI
\* interface, one of another class, a UAS one, and two that lack an endpoint
Interfaces(n) ==
    {[interface_number |-> n, class_code |-> 8, sub_class_code |-> 6,
      protocol_code |-> 80, bulk_in |-> TRUE, bulk_out |-> TRUE],
     [interface_number |-> n, class_code |-> 3, sub_class_code |-> 6,
      protocol_code |-> 80, bulk_in |-> TRUE, bulk_out |-> TRUE],
     [interface_number |-> n, class_code |-> 8, sub_class_code |-> 6,
      protocol_code |-> 98, bulk_in |-> TRUE, bulk_out |-> TRUE],
     [interface_number |-> n, class_code |-> 8, sub_class_code |-> 6,
      protocol_code |-> 80, bulk_in |-> TRUE, bulk_out |-> FALSE],
     [interface_number |-> n, class_code |-> 8, sub_class_code |-> 6,
      protocol_code |-> 80, bulk_in |-> FALSE, bulk_out |-> TRUE]}

Configs ==
    {<<>>}
    \cup {<<a>> : a \in Interfaces(0)}
    \cup {<<a, b>> : a \in Interfaces(0), b \in Interfaces(1)}

OpenEnvs ==
    {e \in [open : {"ok", "err"}, config : {"ok", "err", "none"},
            claim : {"ok", "err"}] :
        /\ e.open = "err" => (e.config = "ok" /\ e.claim = "ok")
        /\ e.config # "ok" => e.claim = "ok"}

DropEnvs == [reset : {"ok", "err"}, release : {"ok", "err"}]

\* what the bus does to a command of this run
MscEnvs ==
    {EnvOk(1), [EnvOk(1) EXCEPT !.data = "err"],
     [EnvOk(1) EXCEPT !.data = "short"], [EnvOk(1) EXCEPT !.csw = "err"]}

MscCalls ==
    {[cmd |-> InquiryCommand_new(36), direction |-> "In", has_buf |-> TRUE],
     [cmd |-> Write10Command_new(0, 1, 1), direction |-> "Out", has_buf |-> TRUE]}

InitMsc ==
    /\ \E config \in Configs :
          usb = [st |-> "Closed", config |-> config, handle |-> "none",
                 interface_number |-> 0, claimed |-> {}, opens |-> 0,
                 halted |-> {}]
    /\ mscOp = NoMscOp
    /\ transport = FALSE
    /\ busLog = <<>>
    /\ botOp = NoBotOp
    /\ medium = <<>> /\ block_size = 0 /\ max_lba = 0 /\ pos = 0 /\ lastOp = NoOp
    /\ ViewIdle
    /\ Uf2Idle
    /\ CliIdle

\* open(self): Ok gives the Opened value, Err leaves none
MscOpen ==
    /\ usb.st = "Closed"
    /\ usb.opens < MaxOpens
    /\ \E env \in OpenEnvs :
          LET r == UsbMassStorage_open(usb.config, env)
          IN  /\ usb' = [usb EXCEPT
                            !.st = IF r.res = "ok" THEN "Opened" ELSE "Gone",
                            !.handle = r.handle,
                            !.interface_number = r.transport.interface_number,
                            !.claimed = r.claimed,
                            !.opens = usb.opens + 1,
                            !.halted = IF r.res = "ok" /\ r.transport.some
                                       THEN {} ELSE usb.halted]
              /\ transport' = r.transport.some
              /\ mscOp' = [op |-> "open", res |-> r.res, calls |-> r.calls,
                           had |-> usb.claimed, out |-> NoOut]
    /\ UNCHANGED <<busLog, botOp, blkVars, viewVars, uf2Vars, cliVars>>

\* what ends the Opened value: the handle calls of its drop
MscDropped(op, st, env) ==
    LET r == Opened_drop(usb, transport, env)
    IN  /\ usb' = [usb EXCEPT !.st = st, !.handle = r.handle,
                              !.claimed = r.claimed,
                              !.halted = IF env.reset = "ok" THEN {}
                                         ELSE usb.halted]
        /\ transport' = FALSE
        /\ mscOp' = [op |-> op, res |-> "ok", calls |-> r.calls,
                     had |-> usb.claimed, out |-> NoOut]

\* execute_command on the Opened value; a panic unwinds and drops it
MscExecute ==
    /\ usb.st = "Opened"
    /\ CallsOnBus < MaxCalls
    /\ \E call \in MscCalls, env \in MscEnvs, denv \in DropEnvs :
          \E r \in {execute_command(transport, 1, MaxData, call.direction,
                                     call.cmd, call.has_buf, MaxData, env)} :
              /\ busLog' = busLog \o r.bus
              /\ botOp' = [tag |-> 1, direction |-> call.direction,
                           has_buf |-> call.has_buf, res |-> r.res,
                           err |-> r.err, csw |-> r.csw, cmd |-> call.cmd,
                           data_len |-> MaxData, sent |-> r.bus]
              /\ IF r.res = "panic"
                 THEN MscDropped("unwind", "Gone", denv)
                 ELSE /\ denv = [reset |-> "ok", release |-> "ok"]
                      /\ UNCHANGED <<usb, transport, mscOp>>
    /\ UNCHANGED <<blkVars, viewVars, uf2Vars, cliVars>>

\* close(self): back to a Closed value
MscClose ==
    /\ usb.st = "Opened"
    /\ \E env \in DropEnvs :
          LET r == UsbMassStorage_close(usb, transport, env)
          IN  /\ usb' = [usb EXCEPT !.st = "Closed", !.handle = r.handle,
                                    !.claimed = r.claimed,
                                    !.halted = IF env.reset = "ok" THEN {}
                                               ELSE usb.halted]
              /\ transport' = FALSE
              /\ mscOp' = [op |-> "close", res |-> "ok", calls |-> r.calls,
                           had |-> usb.claimed, out |-> NoOut]
    /\ UNCHANGED <<busLog, botOp, blkVars, viewVars, uf2Vars, cliVars>>

\* the value goes out of scope
MscDrop ==
    /\ \/ /\ usb.st = "Opened"
          /\ \E env \in DropEnvs : MscDropped("drop", "Gone", env)
       \/ /\ usb.st = "Closed"
          /\ usb' = [usb EXCEPT !.st = "Gone"]
          /\ mscOp' = [op |-> "drop", res |-> "ok", calls |-> <<>>,
                       had |-> usb.claimed, out |-> NoOut]
          /\ UNCHANGED transport
    /\ UNCHANGED <<busLog, botOp, blkVars, viewVars, uf2Vars, cliVars>>

\* transfers made outside execute_command
RawOnBus ==
    Cardinality({i \in DOMAIN busLog :
                    busLog[i].kind \in {"WRITE", "READ", "GET_MAX_LUN"}})

\* the endpoints left halted by a transfer: a stalled bulk endpoint stays
\* halted until the host clears it; clear_halt is called by open only
\* (lines 240-241)
Halted(halted, endpoint, outcome) ==
    IF outcome = "stall" THEN halted \cup {endpoint} ELSE halted

\* write(bytes) on the Opened value, of MaxData bytes
MscWrite ==
    /\ usb.st = "Opened"
    /\ RawOnBus < MaxRaw
    /\ \E outcome \in Outcomes \cup {"stall"} :
          \E r \in {bulk_write(transport, "WRITE", 0, <<>>, MaxData, outcome)} :
              /\ busLog' = busLog \o r.bus
              /\ usb' = [usb EXCEPT
                            !.halted = IF r.bus = <<>> THEN usb.halted
                                       ELSE Halted(usb.halted, "out", outcome)]
              /\ mscOp' = [op |-> "write", res |-> r.res, calls |-> <<>>,
                           had |-> usb.claimed, out |-> r]
    /\ UNCHANGED <<transport, botOp, blkVars, viewVars, uf2Vars, cliVars>>

\* read(buffer) on the Opened value, into MaxData bytes
MscRead ==
    /\ usb.st = "Opened"
    /\ RawOnBus < MaxRaw
    /\ \E outcome \in Outcomes \cup {"stall"} :
          \E r \in {bulk_read(transport, "READ", 0, MaxData, outcome)} :
              /\ busLog' = busLog \o r.bus
              /\ usb' = [usb EXCEPT
                            !.halted = IF r.bus = <<>> THEN usb.halted
                                       ELSE Halted(usb.halted, "in", outcome)]
              /\ mscOp' = [op |-> "read", res |-> r.res, calls |-> <<>>,
                           had |-> usb.claimed, out |-> r]
    /\ UNCHANGED <<transport, botOp, blkVars, viewVars, uf2Vars, cliVars>>

\* get_max_lun() on the Opened value
MscGetMaxLun ==
    /\ usb.st = "Opened"
    /\ RawOnBus < MaxRaw
    /\ \E outcome \in LunOutcomes, byte \in 0..MaxLun :
          \E r \in {get_max_lun(transport, usb.interface_number, outcome, byte)} :
              /\ busLog' = busLog \o r.bus
              /\ mscOp' = [op |-> "get_max_lun", res |-> r.res, calls |-> <<>>,
                           had |-> usb.claimed, out |-> r]
    /\ UNCHANGED <<transport, usb, botOp, blkVars, viewVars, uf2Vars, cliVars>>

NextMsc ==
    MscOpen \/ MscExecute \/ MscWrite \/ MscRead \/ MscGetMaxLun \/ MscClose
        \/ MscDrop

SpecMsc == InitMsc /\ [][NextMsc]_vars

\* the interfaces a list of handle calls releases
Released(calls) ==
    {calls[i].n : i \in {j \in DOMAIN calls : calls[j].call = "release_interface"}}

\* C12: an interface is claimed only while the Opened value exists, and then
\* it is the interface of the transport; when the Opened value ends, by close,
\* by drop or by a panic, the handle is reset first and exactly the interfaces
\* that open had claimed are released, once each; an open that fails leaves
\* no interface claimed and no handle open.
C12_Teardown ==
    /\ usb.st # "Opened" => (usb.claimed = {} /\ usb.handle = "none")
    /\ usb.st = "Opened"
          => usb.claimed = (IF transport THEN {usb.interface_number} ELSE {})
    /\ (mscOp.op \in {"close", "drop", "unwind"} /\ mscOp.calls # <<>>)
          => /\ mscOp.calls[1].call = "reset"
             /\ Released(mscOp.calls) = mscOp.had
             /\ Cardinality({j \in DOMAIN mscOp.calls :
                                mscOp.calls[j].call = "release_interface"})
                    = Cardinality(mscOp.had)
    /\ mscOp.op = "open"
          => /\ Released(mscOp.calls) = {}
             /\ mscOp.res = "err" => usb.claimed = {}

\* a device opened a second time was used and closed, and the close released
\* the interface that open had claimed
C12_Witness ==
    /\ mscOp.op = "close"
    /\ mscOp.had # {}
    /\ usb.opens = 2
    /\ busLog # <<>>

(***************************************************************************)
(* ELF -> UF2 (elf2flash-core).  Addresses are u64 and target_addr is u32, *)
(* modelled U64Bits and U32Bits wide.  An arithmetic overflow panics in a  *)
(* debug build and wraps in a release build; build says which one runs.    *)
(* A segment is [load, p_paddr, p_filesz, p_memsz, p_offset]; p_vaddr is   *)
(* taken equal to p_paddr.  The byte of the input at file offset o is      *)
(* FileByte(o), never zero, and a read past FileLen fails.                 *)
(***************************************************************************)
Wrap64(x) == x % Pow2(U64Bits)
Over64(x) == x >= Pow2(U64Bits)
\* `x as u32`
AsU32(x) == x % Pow2(U32Bits)

\* a & b
RECURSIVE BitAnd(_, _)
BitAnd(a, b) ==
    IF a = 0 \/ b = 0 THEN 0
    ELSE (a % 2) * (b % 2) + 2 * BitAnd(a \div 2, b \div 2)

SetMin(S) == CHOOSE x \in S : \A y \in S : x <= y
SetMax(S) == CHOOSE x \in S : \A y \in S : x >= y

FileByte(o) == o + 1

\* BTreeMap insert: the map f with key k set to v
Put(f, k, v) == [x \in (DOMAIN f) \cup {k} |-> IF x = k THEN v ELSE f[x]]

\* address_range.rs lines 57-80: the ranges one program header adds
seg_ranges(seg) ==
    IF ~seg.load \/ seg.p_memsz = 0 THEN <<>>
    ELSE (IF seg.p_filesz > 0
          THEN <<[typ |-> "Contents", from |-> seg.p_paddr,
                  to |-> Wrap64(seg.p_paddr + seg.p_filesz)]>>
          ELSE <<>>)
         \o (IF seg.p_memsz > seg.p_filesz
             THEN <<[typ |-> "NoContents",
                     from |-> Wrap64(seg.p_paddr + seg.p_filesz),
                     to |-> Wrap64(seg.p_paddr + seg.p_memsz)]>>
             ELSE <<>>)

\* the additions of lines 62, 68 and 76 overflow
seg_ranges_overflow(seg) ==
    /\ seg.load
    /\ seg.p_memsz > 0
    /\ \/ Over64(seg.p_paddr + seg.p_memsz)
       \/ Over64(seg.p_paddr + seg.p_filesz)

RECURSIVE ranges_of(_, _)
ranges_of(segs, i) ==
    IF i > Len(segs) THEN <<>>
    ELSE seg_ranges(segs[i]) \o ranges_of(segs, i + 1)

\* address ranges that take a missing program-header table for an empty one
address_ranges_no_table_test(e) ==
    IF e.build = "debug" /\ \E i \in DOMAIN e.segs : seg_ranges_overflow(e.segs[i])
    THEN [res |-> "panic", err |-> "overflow", ranges |-> <<>>]
    ELSE [res |-> "ok", err |-> "", ranges |-> ranges_of(e.segs, 1)]

\* address_ranges_from_elf; e is the ELF input
address_ranges_from_elf(e) ==
    IF ~e.phdrs
    THEN [res |-> "err", err |-> "NoSegments", ranges |-> <<>>]
    ELSE IF e.build = "debug" /\ \E i \in DOMAIN e.segs : seg_ranges_overflow(e.segs[i])
    THEN [res |-> "panic", err |-> "overflow", ranges |-> <<>>]
    ELSE [res |-> "ok", err |-> "", ranges |-> ranges_of(e.segs, 1)]

\* AddressRangesExt::check_address_range: the first range that contains
\* [addr, addr + size]
check_address_range(ranges, addr, size, uninitialized, build) ==
    LET hits == {i \in DOMAIN ranges :
                    /\ ranges[i].from <= addr
                    /\ ranges[i].to >= Wrap64(addr + size)}
    IN  IF build = "debug" /\ Over64(addr + size)
        THEN [res |-> "panic", err |-> "overflow"]
        ELSE IF hits = {}
        THEN [res |-> "err", err |-> "MemorySegmentInvalidForDevice"]
        ELSE IF ranges[SetMin(hits)].typ = "NoContents" /\ ~uninitialized
        THEN [res |-> "err", err |-> "MemoryContentsForUninitializedMemory"]
        ELSE [res |-> "ok", err |-> ""]

\* no fragment: get_page_fragments did not stop at the overlap test
NoFragment == <<>>

\* an overlap test that also takes two intervals that touch for overlapping
overlaps_touching(fragments, off, len) ==
    \E j \in DOMAIN fragments :
        (off <= fragments[j].page_offset + fragments[j].bytes)
            # (off + len < fragments[j].page_offset)

\* elf.rs lines 83-89: the new fragment [off, off + len) against those recorded
overlaps(fragments, off, len) ==
    \E j \in DOMAIN fragments :
        (off < fragments[j].page_offset + fragments[j].bytes)
            # (off + len <= fragments[j].page_offset)

\* a loop that does not cut a fragment at the end of its page
RECURSIVE fragment_loop_uncut(_, _, _, _, _, _)
fragment_loop_uncut(pages, addr, remaining, file_offset, page_size, build) ==
    IF remaining = 0
    THEN [res |-> "ok", err |-> "", pages |-> pages, tried |-> NoFragment]
    ELSE LET off == BitAnd(addr, page_size - 1)
             len == remaining
             key == addr - off
             fragments == IF key \in DOMAIN pages THEN pages[key] ELSE <<>>
         IN  IF overlaps(fragments, off, len)
             THEN [res |-> "panic", err |-> "In memory segments overlap",
                   pages |-> pages,
                   tried |-> [key |-> key, page_offset |-> off, bytes |-> len]]
             ELSE IF build = "debug" /\ Over64(addr + len)
             THEN [res |-> "panic", err |-> "overflow", pages |-> pages,
                   tried |-> NoFragment]
             ELSE fragment_loop_uncut(
                      Put(pages, key,
                          Append(fragments,
                                 [file_offset |-> file_offset, page_offset |-> off,
                                  bytes |-> len])),
                      Wrap64(addr + len), remaining - len, file_offset + len,
                      page_size, build)

\* a loop that does not advance file_offset
RECURSIVE fragment_loop_same_offset(_, _, _, _, _, _)
fragment_loop_same_offset(pages, addr, remaining, file_offset, page_size, build) ==
    IF remaining = 0 THEN [res |-> "ok", err |-> "", pages |-> pages, tried |-> NoFragment]
    ELSE LET off == BitAnd(addr, page_size - 1)
             len == Min(remaining, page_size - off)
             key == addr - off
             fragments == IF key \in DOMAIN pages THEN pages[key] ELSE <<>>
         IN  IF overlaps(fragments, off, len)
             THEN [res |-> "panic", err |-> "In memory segments overlap",
                   pages |-> pages,
                   tried |-> [key |-> key, page_offset |-> off, bytes |-> len]]
             ELSE IF build = "debug" /\ Over64(addr + len)
             THEN [res |-> "panic", err |-> "overflow", pages |-> pages, tried |-> NoFragment]
             ELSE fragment_loop_same_offset(
                      Put(pages, key,
                          Append(fragments,
                                 [file_offset |-> file_offset, page_offset |-> off,
                                  bytes |-> len])),
                      Wrap64(addr + len), remaining - len, file_offset,
                      page_size, build)

\* elf.rs lines 73-98: while remaining > 0 { ... }.  A result is [res, err,
\* pages, tried]: pages is the map built so far, tried the fragment whose
\* overlap test stopped the loop.
RECURSIVE fragment_loop(_, _, _, _, _, _)
fragment_loop(pages, addr, remaining, file_offset, page_size, build) ==
    IF remaining = 0 THEN [res |-> "ok", err |-> "", pages |-> pages, tried |-> NoFragment]
    ELSE LET off == BitAnd(addr, page_size - 1)
             len == Min(remaining, page_size - off)
             key == addr - off
             fragments == IF key \in DOMAIN pages THEN pages[key] ELSE <<>>
         IN  IF overlaps(fragments, off, len)
             THEN [res |-> "panic", err |-> "In memory segments overlap",
                   pages |-> pages,
                   tried |-> [key |-> key, page_offset |-> off, bytes |-> len]]
             ELSE IF build = "debug" /\ Over64(addr + len)
             THEN [res |-> "panic", err |-> "overflow", pages |-> pages, tried |-> NoFragment]
             ELSE fragment_loop(
                      Put(pages, key,
                          Append(fragments,
                                 [file_offset |-> file_offset, page_offset |-> off,
                                  bytes |-> len])),
                      Wrap64(addr + len), remaining - len, file_offset + len,
                      page_size, build)

\* a result of the loop over the segments is [res, err, pages, tried, checks]:
\* checks lists the calls of check_address_range made so far, each
\* [addr, size, uninitialized]
Checked(r, checks) ==
    [res |-> r.res, err |-> r.err, pages |-> r.pages, tried |-> r.tried,
     checks |-> checks]

\* elf.rs lines 99-107: the BSS tail of the segment, checked after its
\* fragments; fl is the result of the fragment loop, checks the calls made
\* before this one
bss_checked(fl, checks, ranges, seg, build) ==
    IF fl.res # "ok" \/ seg.p_memsz <= seg.p_filesz THEN Checked(fl, checks)
    ELSE IF build = "debug" /\ Over64(seg.p_paddr + seg.p_filesz)
    THEN [res |-> "panic", err |-> "overflow", pages |-> fl.pages,
          tried |-> NoFragment, checks |-> checks]
    ELSE [res |-> check_address_range(ranges, Wrap64(seg.p_paddr + seg.p_filesz),
                                      seg.p_memsz - seg.p_filesz, TRUE, build).res,
          err |-> check_address_range(ranges, Wrap64(seg.p_paddr + seg.p_filesz),
                                      seg.p_memsz - seg.p_filesz, TRUE, build).err,
          pages |-> fl.pages, tried |-> NoFragment,
          checks |-> Append(checks,
                            [addr |-> Wrap64(seg.p_paddr + seg.p_filesz),
                             size |-> seg.p_memsz - seg.p_filesz,
                             uninitialized |-> TRUE])]

\* a segment whose BSS is checked whether or not it has file bytes
paginate_segment_bss_always(pages, checks, ranges, seg, page_size, build) ==
    IF ~seg.load \/ seg.p_memsz = 0
    THEN [res |-> "ok", err |-> "", pages |-> pages, tried |-> NoFragment,
          checks |-> checks]
    ELSE IF Min(seg.p_filesz, seg.p_memsz) = 0
    THEN bss_checked([res |-> "ok", err |-> "", pages |-> pages,
                      tried |-> NoFragment],
                     checks, ranges, seg, build)
    ELSE LET first == Append(checks,
                             [addr |-> seg.p_paddr,
                              size |-> Min(seg.p_filesz, seg.p_memsz),
                              uninitialized |-> FALSE])
             ar == check_address_range(ranges, seg.p_paddr,
                                       Min(seg.p_filesz, seg.p_memsz), FALSE, build)
         IN  IF ar.res # "ok"
             THEN [res |-> ar.res, err |-> ar.err, pages |-> pages,
                   tried |-> NoFragment, checks |-> first]
             ELSE IF page_size = 0
             THEN [res |-> "abort", err |-> "page_size 0", pages |-> pages,
                   tried |-> NoFragment, checks |-> first]
             ELSE bss_checked(
                      fragment_loop(pages, seg.p_paddr,
                                    Min(seg.p_filesz, seg.p_memsz), seg.p_offset,
                                    page_size, build),
                      first, ranges, seg, build)

\* elf.rs lines 53-109: one program header.  With page_size 0 the loop cannot
\* finish a fragment (page_size - 1 underflows): the run is lost ("abort").
paginate_segment(pages, checks, ranges, seg, page_size, build) ==
    IF ~seg.load \/ seg.p_memsz = 0 \/ Min(seg.p_filesz, seg.p_memsz) = 0
    THEN [res |-> "ok", err |-> "", pages |-> pages, tried |-> NoFragment,
          checks |-> checks]
    ELSE LET first == Append(checks,
                             [addr |-> seg.p_paddr,
                              size |-> Min(seg.p_filesz, seg.p_memsz),
                              uninitialized |-> FALSE])
             ar == check_address_range(ranges, seg.p_paddr,
                                       Min(seg.p_filesz, seg.p_memsz), FALSE, build)
         IN  IF ar.res # "ok"
             THEN [res |-> ar.res, err |-> ar.err, pages |-> pages,
                   tried |-> NoFragment, checks |-> first]
             ELSE IF page_size = 0
             THEN [res |-> "abort", err |-> "page_size 0", pages |-> pages,
                   tried |-> NoFragment, checks |-> first]
             ELSE bss_checked(
                      fragment_loop(pages, seg.p_paddr,
                                    Min(seg.p_filesz, seg.p_memsz), seg.p_offset,
                                    page_size, build),
                      first, ranges, seg, build)

\* elf.rs lines 52-110: for segment in file.segments()
RECURSIVE segments_loop(_, _, _, _, _, _)
segments_loop(r, ranges, segs, i, page_size, build) ==
    IF r.res # "ok" \/ i > Len(segs) THEN r
    ELSE segments_loop(paginate_segment(r.pages, r.checks, ranges, segs[i],
                                        page_size, build),
                       ranges, segs, i + 1, page_size, build)

\* get_page_fragments(file, page_size)
get_page_fragments(e, page_size) ==
    LET ar == address_ranges_from_elf(e)
    IN  IF ar.res # "ok"
        THEN [res |-> ar.res, err |-> ar.err, pages |-> <<>>,
              tried |-> NoFragment, checks |-> <<>>]
        ELSE segments_loop([res |-> "ok", err |-> "", pages |-> <<>>,
                            tried |-> NoFragment, checks |-> <<>>],
                           ar.ranges, e.segs, 1, page_size, e.build)

\* lib.rs lines 98-103: while page < (sector + 1) * erase { ... }.  When
\* page += page_size wraps, the loop starts over from a low address; it never
\* ends once it has run more often than there are addresses ("hang").
RECURSIVE pad_sector_loop(_, _, _, _, _, _, _)
pad_sector_loop(pages, page, bound, last_page_addr, page_size, build, fuel) ==
    IF ~(page < bound) THEN [res |-> "ok", err |-> "", pages |-> pages]
    ELSE IF fuel = 0 THEN [res |-> "hang", err |-> "", pages |-> pages]
    ELSE IF build = "debug" /\ Over64(page + page_size)
    THEN [res |-> "panic", err |-> "overflow", pages |-> pages]
    ELSE pad_sector_loop(
             IF page < last_page_addr /\ page \notin DOMAIN pages
             THEN Put(pages, page, <<>>) ELSE pages,
             Wrap64(page + page_size), bound, last_page_addr, page_size, build,
             fuel - 1)

\* lib.rs lines 95-104: one touched sector
pad_sector(pages, sector, erase, last_page_addr, page_size, build) ==
    IF build = "debug" /\ (Over64(sector + 1) \/ Over64((sector + 1) * erase))
    THEN [res |-> "panic", err |-> "overflow", pages |-> pages]
    ELSE pad_sector_loop(pages, sector * erase,
                         Wrap64(Wrap64(sector + 1) * erase), last_page_addr,
                         page_size, build, Pow2(U64Bits) + 1)

\* lib.rs line 95: for sector in touched_sectors
RECURSIVE pad_sectors(_, _, _, _, _, _)
pad_sectors(r, sectors, erase, last_page_addr, page_size, build) ==
    IF r.res # "ok" \/ sectors = {} THEN r
    ELSE pad_sectors(pad_sector(r.pages, SetMin(sectors), erase, last_page_addr,
                                page_size, build),
                     sectors \ {SetMin(sectors)}, erase, last_page_addr, page_size,
                     build)

\* lib.rs lines 86-104: touched_sectors, last_page_addr, the padding pages
pad_pages(pages, erase, page_size, build) ==
    IF erase = 0
    THEN [res |-> "panic", err |-> "divide by zero", pages |-> pages]
    ELSE pad_sectors([res |-> "ok", err |-> "", pages |-> pages],
                     {k \div erase : k \in DOMAIN pages}, erase,
                     SetMax(DOMAIN pages), page_size, build)

\* realize_page lines 28-39: for frag in fragments
RECURSIVE realize_fragments(_, _, _, _)
realize_fragments(r, fragments, i, page_size) ==
    IF r.res # "ok" \/ i > Len(fragments) THEN r
    ELSE LET frag == fragments[i]
         IN  IF ~(frag.page_offset < page_size
                  /\ frag.page_offset + frag.bytes <= page_size)
             THEN [res |-> "panic", err |-> "assert fragment", buf |-> r.buf]
             ELSE IF frag.file_offset + frag.bytes > FileLen
             THEN [res |-> "err", err |-> "RealizePageError", buf |-> r.buf]
             ELSE realize_fragments(
                      [r EXCEPT !.buf =
                          [x \in DOMAIN r.buf |->
                              IF x > frag.page_offset
                                 /\ x <= frag.page_offset + frag.bytes
                              THEN FileByte(frag.file_offset + x
                                            - frag.page_offset - 1)
                              ELSE r.buf[x]]],
                      fragments, i + 1, page_size)

\* realize_page(input, fragments, buf, page_size)
realize_page(fragments, buf, page_size) ==
    IF ~(Len(buf) >= page_size)
    THEN [res |-> "panic", err |-> "assert", buf |-> buf]
    ELSE realize_fragments([res |-> "ok", err |-> "", buf |-> buf], fragments, 1,
                           page_size)

\* uf2.rs: the constants and the layout of a block (512 bytes in the program:
\* 32 of header, the data area, 4 of footer)
UF2_MAGIC_START0 == "0x0A324655"
UF2_MAGIC_START1 == "0x9E5D5157"
UF2_MAGIC_END == "0x0AB16F30"
UF2_FLAG_FAMILY_ID_PRESENT == "0x00002000"
UF2_HEADER_LEN == 32
UF2_FOOTER_LEN == 4

\* a header whose block_no counts from 1
Uf2BlockHeader_from_one(target_addr, page_num, num_blocks, board) ==
    [magic_start0 |-> UF2_MAGIC_START0,
     magic_start1 |-> UF2_MAGIC_START1,
     flags |-> UF2_FLAG_FAMILY_ID_PRESENT,
     target_addr |-> AsU32(target_addr),
     payload_size |-> board.page_size,
     block_no |-> page_num + 1,
     num_blocks |-> num_blocks,
     file_size |-> board.family_id]

\* lib.rs lines 106-121 and 130-131: the header of the block of page
\* target_addr, the page_num-th of num_blocks
Uf2BlockHeader(target_addr, page_num, num_blocks, board) ==
    [magic_start0 |-> UF2_MAGIC_START0,
     magic_start1 |-> UF2_MAGIC_START1,
     flags |-> UF2_FLAG_FAMILY_ID_PRESENT,
     target_addr |-> AsU32(target_addr),
     payload_size |-> board.page_size,
     block_no |-> page_num,
     num_blocks |-> num_blocks,
     file_size |-> board.family_id]

\* lib.rs line 140: block_data.iter_mut().for_each(|v| *v = 0)
ZeroData == [x \in 1..Uf2DataLen |-> 0]

\* lines 125, 154, 161: the size of a UF2 block as the reporter is told it
REPORT_BLOCK == 512

\* a reporter advanced after every block, the last one included
advanced_every_block(c) ==
    Append(c.reporter, [ev |-> "advance", bytes |-> REPORT_BLOCK])

\* lines 153-155: if page_num != last_page_num { reporter.advance(512) }
advanced(c) ==
    IF Len(c.blocks) # c.num_blocks - 1
    THEN Append(c.reporter, [ev |-> "advance", bytes |-> REPORT_BLOCK])
    ELSE c.reporter

\* a block written without its footer
block_written_no_footer(c, page, header, data) ==
    [c EXCEPT !.blocks = Append(c.blocks,
                                [page |-> page, header |-> header, data |-> data,
                                 magic_end |-> UF2_MAGIC_END]),
              !.out_len = c.out_len + UF2_HEADER_LEN + Len(data),
              !.left = c.left \ {page},
              !.reporter = advanced(c)]

\* lib.rs lines 149-151: the three write_all of one block
block_written(c, page, header, data) ==
    [c EXCEPT !.blocks = Append(c.blocks,
                                [page |-> page, header |-> header, data |-> data,
                                 magic_end |-> UF2_MAGIC_END]),
              !.out_len = c.out_len + UF2_HEADER_LEN + Len(data) + UF2_FOOTER_LEN,
              !.left = c.left \ {page},
              !.reporter = advanced(c)]

\* lib.rs lines 129-152: one iteration of the loop over the pages, c the
\* conversion so far and rp the result of realize_page
emit_block(c, rp, page, board) ==
    IF rp.res # "ok"
    THEN [c EXCEPT !.pc = "done", !.res = rp.res, !.err = rp.err]
    ELSE block_written(c, page,
                       Uf2BlockHeader(page, Len(c.blocks), c.num_blocks, board),
                       rp.buf)

(***************************************************************************)
(* SpecUf2: one call of elf2uf2 on an ELF input and a board, in four kinds *)
(* of step: get_page_fragments, the padding of the touched sectors, one    *)
(* block per page, the end.  conv is [pc, res, err, pages, content, left,  *)
(* num_blocks, blocks, out_len, seen, tried, reporter, checks]; reporter   *)
(* lists the calls made on the progress reporter, checks the calls of      *)
(* check_address_range; seen is the page map that                          *)
(* get_page_fragments had built when it returned or stopped, tried the     *)
(* fragment at which its overlap test stopped it; content are the keys     *)
(* get_page_fragments made, left the keys not yet emitted, out_len the     *)
(* bytes written.                                                          *)
(***************************************************************************)
\* the boards: page_size 256 and erase size 4096 of BoardInfo are 2 and 4
\* here; a CustomBoard takes any page_size and flash_sector_erase_size
Boards ==
    {[name |-> "rp2040", family_id |-> "0xe48bff56", page_size |-> 2, erase |-> 4]}
    \cup [name : {"custom"}, family_id : {"0xada52840"},
          page_size : {0, 3, Uf2DataLen, Uf2DataLen + 1}, erase : {4}]
    \cup [name : {"custom"}, family_id : {"0xada52840"},
          page_size : {2}, erase : {0, 3}]

\* program headers: one that is not PT_LOAD, and the PT_LOAD ones at addrs
SegsAt(addrs) ==
    {[load |-> FALSE, p_paddr |-> 0, p_filesz |-> 1, p_memsz |-> 1, p_offset |-> 0]}
    \cup {sg \in [load : {TRUE}, p_paddr : addrs, p_filesz : 0..MaxSegSize,
                  p_memsz : 0..MaxSegSize, p_offset : {0, FileLen - 1}] :
             sg.p_filesz = 0 => sg.p_offset = 0}

\* the program header tables: none, empty, one header anywhere, two headers low
SegTables ==
    {<<>>}
    \cup {<<sg>> : sg \in SegsAt(0..(Pow2(U64Bits) - 1))}
    \cup {<<sg, tg>> : sg \in SegsAt(0..MaxPairAddr), tg \in SegsAt(0..MaxPairAddr)}

InitUf2 ==
    /\ \E segs \in SegTables, phdrs \in BOOLEAN, board \in Boards,
          build \in {"debug", "release"} :
          /\ ~phdrs => segs = <<>>
          /\ elf = [phdrs |-> phdrs, segs |-> segs, build |-> build,
                    board |-> board]
    /\ conv = [pc |-> "paginate", res |-> "none", err |-> "", pages |-> <<>>,
               content |-> {}, left |-> {}, num_blocks |-> 0, blocks |-> <<>>,
               out_len |-> 0, seen |-> <<>>, tried |-> NoFragment,
               reporter |-> <<>>, checks |-> <<>>]
    /\ medium = <<>> /\ block_size = 0 /\ max_lba = 0 /\ pos = 0 /\ lastOp = NoOp
    /\ ViewIdle
    /\ BotIdle
    /\ CliIdle

\* a conversion that goes on with an empty page map
paginated_any_map(c, r) ==
    IF r.res # "ok"
    THEN [c EXCEPT !.pc = "done", !.res = r.res, !.err = r.err,
                   !.seen = r.pages, !.tried = r.tried, !.checks = r.checks]
    ELSE [c EXCEPT !.pc = "pad", !.pages = r.pages, !.content = DOMAIN r.pages,
                   !.seen = r.pages, !.checks = r.checks]

\* lib.rs lines 80-84: the conversion c once get_page_fragments returned r:
\* `?`, then the test for an empty map
paginated(c, r) ==
    IF r.res # "ok"
    THEN [c EXCEPT !.pc = "done", !.res = r.res, !.err = r.err,
                   !.seen = r.pages, !.tried = r.tried, !.checks = r.checks]
    ELSE IF DOMAIN r.pages = {}
    THEN [c EXCEPT !.pc = "done", !.res = "err",
                   !.err = "InputFileNoMemoryPagesError", !.checks = r.checks]
    ELSE [c EXCEPT !.pc = "pad", !.pages = r.pages, !.content = DOMAIN r.pages,
                   !.seen = r.pages, !.checks = r.checks]

\* lib.rs lines 80-84: get_page_fragments, then the test for an empty map
Paginate ==
    /\ conv.pc = "paginate"
    /\ conv' = paginated(conv, get_page_fragments(elf, elf.board.page_size))
    /\ UNCHANGED <<elf, blkVars, viewVars, botVars, cliVars>>

\* lib.rs lines 86-127: the padding pages, then the header with num_blocks and
\* reporter.start
PadSectors ==
    LET r == pad_pages(conv.pages, elf.board.erase, elf.board.page_size, elf.build)
    IN  /\ conv.pc = "pad"
        /\ conv' = IF r.res # "ok"
                   THEN [conv EXCEPT !.pc = "done", !.res = r.res, !.err = r.err]
                   ELSE [conv EXCEPT !.pc = "emit", !.pages = r.pages,
                                     !.left = DOMAIN r.pages,
                                     !.num_blocks = Cardinality(DOMAIN r.pages),
                                     !.reporter =
                                         <<[ev |-> "start",
                                            bytes |-> Cardinality(DOMAIN r.pages)
                                                      * REPORT_BLOCK]>>]
        /\ UNCHANGED <<elf, blkVars, viewVars, botVars, cliVars>>

\* lib.rs lines 129-156: the block of the lowest page not yet emitted
EmitBlock ==
    /\ conv.pc = "emit"
    /\ conv.left # {}
    /\ conv' = emit_block(conv,
                          realize_page(conv.pages[SetMin(conv.left)], ZeroData,
                                       elf.board.page_size),
                          SetMin(conv.left), elf.board)
    /\ UNCHANGED <<elf, blkVars, viewVars, botVars, cliVars>>

\* lib.rs lines 158-165: all pages written, the last advance, finish, Ok(())
Finish ==
    /\ conv.pc = "emit"
    /\ conv.left = {}
    /\ conv' = [conv EXCEPT !.pc = "done", !.res = "ok",
                            !.reporter =
                                conv.reporter
                                \o <<[ev |-> "advance", bytes |-> REPORT_BLOCK],
                                     [ev |-> "finish", bytes |-> 0]>>]
    /\ UNCHANGED <<elf, blkVars, viewVars, botVars, cliVars>>

NextUf2 == Paginate \/ PadSectors \/ EmitBlock \/ Finish

SpecUf2 == InitUf2 /\ [][NextUf2]_vars

(***************************************************************************)
(* SpecConvert: the convert command from File::create on                   *)
(* (elf2flash commands/convert.rs lines 63-77), around the conversion of   *)
(* SpecUf2.  outFile is [exists, created, written, ret]: a file exists at  *)
(* the output path, this run created it, the bytes handed to its writer,   *)
(* and what convert returned.                                              *)
(***************************************************************************)
\* the inputs of SpecUf2 with at most one program header, and an output path
\* with or without a file
InitConvert ==
    /\ \E segs \in {t \in SegTables : Len(t) <= 1}, phdrs \in BOOLEAN,
          board \in Boards, build \in {"debug", "release"} :
          /\ ~phdrs => segs = <<>>
          /\ elf = [phdrs |-> phdrs, segs |-> segs, build |-> build,
                    board |-> board]
    /\ conv = [pc |-> "create", res |-> "none", err |-> "", pages |-> <<>>,
               content |-> {}, left |-> {}, num_blocks |-> 0, blocks |-> <<>>,
               out_len |-> 0, seen |-> <<>>, tried |-> NoFragment,
               reporter |-> <<>>, checks |-> <<>>]
    /\ \E exists \in BOOLEAN : outFile = [NoFile EXCEPT !.exists = exists]
    /\ deploy = NoDeploy
    /\ StoIdle
    /\ medium = <<>> /\ block_size = 0 /\ max_lba = 0 /\ pos = 0 /\ lastOp = NoOp
    /\ ViewIdle
    /\ BotIdle

\* convert.rs lines 65-66: File::create(&output)?; created is its outcome
convert_create(f, created) ==
    IF created
    THEN [f EXCEPT !.exists = TRUE, !.created = TRUE, !.written = 0]
    ELSE [f EXCEPT !.ret = "Err"]

\* convert.rs lines 68-76: `?` on the result of elf2uf2, then Ok(()); c is the
\* conversion that ended.  Nothing removes the file; the writer goes out of
\* scope with what the conversion wrote.
convert_return(f, c) ==
    [f EXCEPT !.written = c.out_len,
              !.ret = IF c.res = "ok" THEN "Ok"
                      ELSE IF c.res = "err" THEN "Err" ELSE c.res]

ConvertCreate ==
    /\ conv.pc = "create"
    /\ \E created \in BOOLEAN :
          /\ outFile' = convert_create(outFile, created)
          /\ conv' = [conv EXCEPT !.pc = IF created THEN "paginate"
                                         ELSE "returned"]
    /\ UNCHANGED <<elf, deploy, stoVars, blkVars, viewVars, botVars>>

ConvertReturn ==
    /\ conv.pc = "done"
    /\ outFile' = convert_return(outFile, conv)
    /\ conv' = [conv EXCEPT !.pc = "returned"]
    /\ UNCHANGED <<elf, deploy, stoVars, blkVars, viewVars, botVars>>

NextConvert ==
    ConvertCreate \/ Paginate \/ PadSectors \/ EmitBlock \/ Finish
        \/ ConvertReturn

SpecConvert == InitConvert /\ [][NextConvert]_vars

(***************************************************************************)
(* SpecDeploy: one deploy_to_usb call (elf2flash                           *)
(* commands/deploy/to_usb.rs lines 159-255), with any outcome of the       *)
(* mount, of create_file, of each write_all and of flush.  deploy is       *)
(* [pc, len, sent, mount, created, writes, flush, ret, progress]: len the  *)
(* length of the UF2 stream, sent the bytes handed to write_all so far,    *)
(* mount the step of the mount that failed, writes the write_all calls as  *)
(* [bytes, done], progress the calls on the progress reporter.             *)
(***************************************************************************)
\* length of a chunk (CHUNK_SIZE, 16 * 1024 in the program)
ChunkSize == 2
\* the longest UF2 stream
MaxStream == 6

\* lines 174-221: open, block_device and FileSystem::new; the step that failed
MountOutcomes == {"ok", "open", "block_device", "mount"}

InitDeploy ==
    /\ \E len \in 0..MaxStream :
          deploy = [NoDeploy EXCEPT !.pc = "mount", !.len = len]
    /\ outFile = NoFile
    /\ StoIdle
    /\ medium = <<>> /\ block_size = 0 /\ max_lba = 0 /\ pos = 0 /\ lastOp = NoOp
    /\ ViewIdle
    /\ BotIdle
    /\ Uf2Idle

\* lines 166-221: progress.start, then the three steps that bail! on failure
deploy_mount(d, outcome) ==
    [d EXCEPT !.pc = IF outcome = "ok" THEN "create" ELSE "done",
              !.mount = outcome,
              !.ret = IF outcome = "ok" THEN "none" ELSE "Err",
              !.progress = <<[ev |-> "start", bytes |-> d.len]>>]

\* lines 223-224 and 246-254: create_file("out.uf2"); its error is logged and
\* the function goes on to Ok(())
deploy_create(d, outcome) ==
    IF outcome = "ok"
    THEN [d EXCEPT !.pc = "write", !.created = TRUE]
    ELSE [d EXCEPT !.pc = "done", !.ret = "Ok"]

\* lines 227-236: one chunk: write_all, its error logged, progress.advance
deploy_chunk(d, outcome) ==
    LET chunk == Min(ChunkSize, d.len - d.sent)
    IN  [d EXCEPT !.sent = d.sent + chunk,
                  !.writes = Append(d.writes, [bytes |-> chunk, done |-> outcome]),
                  !.progress = Append(d.progress,
                                      [ev |-> "advance", bytes |-> chunk])]

\* lines 238-254: flush, its error logged, progress.finish, Ok(())
deploy_flush(d, outcome) ==
    [d EXCEPT !.pc = "done", !.flush = outcome, !.ret = "Ok",
              !.progress = Append(d.progress, [ev |-> "finish", bytes |-> 0])]

DeployMount ==
    /\ deploy.pc = "mount"
    /\ \E outcome \in MountOutcomes : deploy' = deploy_mount(deploy, outcome)
    /\ UNCHANGED <<outFile, stoVars, blkVars, viewVars, botVars, uf2Vars>>

DeployCreate ==
    /\ deploy.pc = "create"
    /\ \E outcome \in {"ok", "err"} : deploy' = deploy_create(deploy, outcome)
    /\ UNCHANGED <<outFile, stoVars, blkVars, viewVars, botVars, uf2Vars>>

DeployWriteChunk ==
    /\ deploy.pc = "write"
    /\ deploy.sent < deploy.len
    /\ \E outcome \in {"ok", "err"} : deploy' = deploy_chunk(deploy, outcome)
    /\ UNCHANGED <<outFile, stoVars, blkVars, viewVars, botVars, uf2Vars>>

DeployFlush ==
    /\ deploy.pc = "write"
    /\ deploy.sent = deploy.len
    /\ \E outcome \in {"ok", "err"} : deploy' = deploy_flush(deploy, outcome)
    /\ UNCHANGED <<outFile, stoVars, blkVars, viewVars, botVars, uf2Vars>>

NextDeploy == DeployMount \/ DeployCreate \/ DeployWriteChunk \/ DeployFlush

SpecDeploy == InitDeploy /\ [][NextDeploy]_vars

Finished == conv.pc = "done" /\ conv.res = "ok"

\* the fragment of the list that covers byte x (1-based) of the page, if any
Covering(fragments, x) ==
    {j \in DOMAIN fragments :
        x > fragments[j].page_offset
        /\ x <= fragments[j].page_offset + fragments[j].bytes}

\* the first n bytes of the page the fragments describe, read from the input
PagePayload(fragments, n) ==
    [x \in 1..n |->
        IF Covering(fragments, x) = {} THEN 0
        ELSE LET frag == fragments[SetMin(Covering(fragments, x))]
             IN  FileByte(frag.file_offset + x - frag.page_offset - 1)]

\* the stream decoded to a map target_addr -> payload (a later block of the
\* same target_addr replaces an earlier one)
Decoded ==
    [a \in {conv.blocks[i].header.target_addr : i \in DOMAIN conv.blocks} |->
        LET last == SetMax({i \in DOMAIN conv.blocks :
                               conv.blocks[i].header.target_addr = a})
        IN  SubSeq(conv.blocks[last].data, 1,
                   conv.blocks[last].header.payload_size)]

\* C3, first part: in every block the bytes of each fragment of its page are
\* the bytes of the input, and every other byte of the data area is zero.
C3_PayloadOfFragments ==
    \A i \in DOMAIN conv.blocks :
        conv.blocks[i].data = PagePayload(conv.pages[conv.blocks[i].page], Uf2DataLen)

\* C3: payload reconstruction as above, and the stream of a finished conversion
\* decodes to exactly the page map with its padding pages, address by address.
C3_PayloadRoundTrip ==
    /\ C3_PayloadOfFragments
    /\ Finished
          => Decoded = [k \in DOMAIN conv.pages |->
                           PagePayload(conv.pages[k], elf.board.page_size)]

\* the header fields of the i-th block (1-based) that do not count the stream
HeaderFields(i) ==
    LET h == conv.blocks[i].header
    IN  /\ h.block_no = i - 1
        /\ h.magic_start0 = "0x0A324655"
        /\ h.magic_start1 = "0x9E5D5157"
        /\ conv.blocks[i].magic_end = "0x0AB16F30"
        /\ h.flags = "0x00002000"
        /\ h.payload_size = elf.board.page_size
        /\ h.payload_size <= Len(conv.blocks[i].data)
        /\ h.file_size = elf.board.family_id

C5_OutputLength ==
    Finished
        => /\ Len(conv.blocks) = Cardinality(DOMAIN conv.pages)
           /\ conv.out_len = (UF2_HEADER_LEN + Uf2DataLen + UF2_FOOTER_LEN)
                                 * Cardinality(DOMAIN conv.pages)

C5_Witness ==
    /\ Finished
    /\ Cardinality(DOMAIN conv.pages) > Cardinality(conv.content)
    /\ conv.out_len > 0

\* C6: the target_addr of each block is strictly greater than that of the
\* block before it.
C6_AscendingTargets ==
    \A i \in 2..Len(conv.blocks) :
        conv.blocks[i].header.target_addr > conv.blocks[i - 1].header.target_addr

\* C7: the pages of a finished stream are the content pages and, for every
\* sector S with a content page, every S*erase + k*page_size below
\* (S+1)*erase and below the highest content page.
C7_SectorCoverage ==
    Finished
        => {conv.blocks[i].page : i \in DOMAIN conv.blocks}
             = conv.content
               \cup {q \in 0..(Pow2(U64Bits) - 1) :
                        /\ q < SetMax(conv.content)
                        /\ \E c \in conv.content :
                              /\ q \div elf.board.erase = c \div elf.board.erase
                              /\ (q - (c \div elf.board.erase) * elf.board.erase)
                                    % elf.board.page_size = 0}

\* C8: every key of the page map, made by get_page_fragments or inserted as
\* padding, is a multiple of page_size.
C8_KeysAligned ==
    \A k \in DOMAIN conv.pages :
        elf.board.page_size > 0 => k % elf.board.page_size = 0

\* two intervals [a, a + m) and [b, b + n) of a page have a byte in common
Intersect(a, m, b, n) == \E x \in a..(a + m - 1) : x >= b /\ x < b + n

PagesReturned == conv.content # {}

LittleEndian(bytes, x) ==
    x = bytes[1] + 256 * bytes[2] + 65536 * bytes[3] + 16777216 * bytes[4]

\* C11: the CBW execute_command sends is 31 bytes: signature 0x43425355, the
\* caller's tag and data_len (little-endian), flags 0x80 for IN and 0x00 for
\* OUT, LUN 0, a CDB length equal to the command's len() and within 1..16, and
\* the 16-byte CDB with the bytes from len() on zero.
C11_CbwLayout ==
    (botOp.sent # <<>>)
        => LET b == botOp.sent[1].bytes
           IN  /\ botOp.sent[1].kind = "CBW"
               /\ Len(b) = 31
               /\ SubSeq(b, 1, 4) = <<85, 83, 66, 67>>
               /\ LittleEndian(SubSeq(b, 5, 8), botOp.tag)
               /\ LittleEndian(SubSeq(b, 9, 12), botOp.data_len)
               /\ b[13] = (IF botOp.direction = "In" THEN 128 ELSE 0)
               /\ b[14] = 0
               /\ b[15] = CommandBlock_len(botOp.cmd)
               /\ b[15] \in 1..16
               /\ SubSeq(b, 16, 31) = CommandBlock_to_bytes(botOp.cmd)
               /\ \A i \in (16 + b[15])..31 : b[i] = 0

\* C11 without the CDB length byte: every other field of the CBW is as stated.
C11_CbwLayoutButLength ==
    (botOp.sent # <<>>)
        => LET b == botOp.sent[1].bytes
           IN  /\ botOp.sent[1].kind = "CBW"
               /\ Len(b) = 31
               /\ SubSeq(b, 1, 4) = <<85, 83, 66, 67>>
               /\ LittleEndian(SubSeq(b, 5, 8), botOp.tag)
               /\ LittleEndian(SubSeq(b, 9, 12), botOp.data_len)
               /\ b[13] = (IF botOp.direction = "In" THEN 128 ELSE 0)
               /\ b[14] = 0
               /\ b[15] = 16
               /\ SubSeq(b, 16, 31) = CommandBlock_to_bytes(botOp.cmd)
               /\ \A i \in (16 + CommandBlock_len(botOp.cmd))..31 : b[i] = 0

\* the file-backed region of segment i lies inside the NoContents range (the
\* BSS tail) of segment j
ContentsInBss(i, j) ==
    LET a == elf.segs[i]
        b == elf.segs[j]
    IN  /\ i # j
        /\ a.load /\ a.p_filesz > 0 /\ a.p_memsz > 0
        /\ b.load /\ b.p_memsz > b.p_filesz
        /\ b.p_paddr + b.p_filesz <= a.p_paddr
        /\ a.p_paddr + a.p_filesz <= b.p_paddr + b.p_memsz

\* get_page_fragments failed with MemoryContentsForUninitializedMemory and
\* gave no page map
ContentsRefused ==
    /\ conv.res = "err"
    /\ conv.err = "MemoryContentsForUninitializedMemory"
    /\ ~PagesReturned
    /\ conv.pages = <<>>

\* C21: whenever the file-backed region of one loadable segment lies inside the
\* NoContents range of a loadable segment, the conversion fails with
\* MemoryContentsForUninitializedMemory and produces no page map, for every
\* order of the two segments in the program-header table.
C21_ContentsInBssRefused ==
    (/\ conv.pc # "paginate"
     /\ elf.board.page_size > 0
     /\ \E i, j \in DOMAIN elf.segs : ContentsInBss(i, j))
    => ContentsRefused

\* The refusal holds when the segment with the BSS tail comes first in the
\* table.
C21_ContentsInEarlierBssRefused ==
    (/\ conv.pc # "paginate"
     /\ elf.board.page_size > 0
     /\ \E i, j \in DOMAIN elf.segs : j < i /\ ContentsInBss(i, j))
    => ContentsRefused

\* no program header of the input is PT_LOAD
NoLoadable == \A i \in DOMAIN elf.segs : ~elf.segs[i].load

\* C22: an ELF with no loadable segments is rejected by the conversion with the
\* NoSegments error, and no byte is written to the output.
C22_NoLoadableIsNoSegments ==
    (conv.pc # "paginate" /\ NoLoadable)
    => /\ conv.pc = "done" /\ conv.res = "err"
       /\ conv.err = "NoSegments"
       /\ conv.out_len = 0 /\ conv.blocks = <<>>

\* C22 as the code has it: an ELF with no loadable segments is rejected and no
\* byte is written; the error is NoSegments exactly when the ELF has no
\* program-header table, and InputFileNoMemoryPagesError when it has a table
\* without a PT_LOAD entry.
C22_NoLoadableRejected ==
    (conv.pc # "paginate" /\ NoLoadable)
    => /\ conv.pc = "done" /\ conv.res = "err"
       /\ conv.err = IF elf.phdrs THEN "InputFileNoMemoryPagesError"
                      ELSE "NoSegments"
       /\ conv.out_len = 0 /\ conv.blocks = <<>>

\* the conversion of an ELF without a program-header table has ended
C22_Witness ==
    /\ ~elf.phdrs
    /\ conv.pc = "done"
    /\ conv.err = "NoSegments"
    /\ conv.out_len = 0

\* get_page_fragments succeeded with an empty page map
EmptyMapReturned ==
    /\ get_page_fragments(elf, elf.board.page_size).res = "ok"
    /\ DOMAIN get_page_fragments(elf, elf.board.page_size).pages = {}

\* C23: when get_page_fragments succeeds with an empty page map, elf2uf2 fails
\* with InputFileNoMemoryPages before it writes any byte to the output and
\* before it calls start, advance or finish on the progress reporter.
C23_EmptyMapRefused ==
    (conv.pc # "paginate" /\ EmptyMapReturned)
    => /\ conv.pc = "done" /\ conv.res = "err"
       /\ conv.err = "InputFileNoMemoryPagesError"
       /\ conv.out_len = 0 /\ conv.blocks = <<>>
       /\ conv.reporter = <<>>

\* the conversion of an ELF whose only loadable segment has no file bytes has
\* ended
C23_Witness ==
    /\ conv.pc = "done"
    /\ EmptyMapReturned
    /\ \E i \in DOMAIN elf.segs : elf.segs[i].load /\ elf.segs[i].p_memsz > 0

\* get_page_fragments has returned a page map for the ELF
MapReturned ==
    /\ conv.pc # "paginate"
    /\ get_page_fragments(elf, elf.board.page_size).res = "ok"

\* a PT_LOAD header with memory but no file bytes
BssOnly(seg) == seg.load /\ seg.p_filesz = 0 /\ seg.p_memsz > 0

\* a PT_LOAD header with file bytes and a longer memory image
BssTail(seg) == seg.load /\ seg.p_filesz > 0 /\ seg.p_memsz > seg.p_filesz

\* the fragment f of page key k holds file bytes of the header seg
FromFileBytes(k, f, seg) ==
    /\ seg.load /\ Min(seg.p_filesz, seg.p_memsz) > 0
    /\ \E d \in 0..(Min(seg.p_filesz, seg.p_memsz) - 1) :
          /\ Wrap64(seg.p_paddr + d) = k + f.page_offset
          /\ d + f.bytes <= Min(seg.p_filesz, seg.p_memsz)
          /\ f.file_offset = seg.p_offset + d

\* every page key of the map has a fragment, and every fragment holds file
\* bytes of a header
MapOfFileBytes ==
    \A k \in DOMAIN conv.seen :
       /\ Len(conv.seen[k]) > 0
       /\ \A n \in DOMAIN conv.seen[k] :
             \E i \in DOMAIN elf.segs : FromFileBytes(k, conv.seen[k][n], elf.segs[i])

\* the calls of check_address_range for uninitialized memory
UninitializedChecks == SelectSeq(conv.checks, LAMBDA c : c.uninitialized)

NoBulkOnlyInterface ==
    \A i \in DOMAIN usb.config :
        ~ /\ usb.config[i].class_code = 8
          /\ usb.config[i].sub_class_code = 6
          /\ usb.config[i].protocol_code = 80
          /\ usb.config[i].bulk_in
          /\ usb.config[i].bulk_out

\* C25: when open finds no Bulk-Only SCSI interface with a bulk IN and a bulk
\* OUT endpoint, the Opened value has no transport and no interface is claimed,
\* and every write, read, execute_command and get_max_lun on it returns
\* NoKnownTransportationMethod without a USB transfer.
C25_NoTransportNoTransfer ==
    NoBulkOnlyInterface
    => /\ usb.st = "Opened" => (~transport /\ usb.claimed = {})
       /\ busLog = <<>>
       /\ mscOp.op \in {"write", "read", "get_max_lun"}
             => /\ mscOp.out.res = "err"
                /\ mscOp.out.err = "NoKnownTransportationMethod"
       /\ botOp.res # "none"
             => /\ botOp.res = "err"
                /\ botOp.err = "NoKnownTransportationMethod"
                /\ botOp.sent = <<>>
       /\ \A i \in DOMAIN mscOp.calls : mscOp.calls[i].call # "claim_interface"

\* get_max_lun was called on an Opened value of a device with interfaces but no
\* Bulk-Only one, after an execute_command
C25_Witness ==
    /\ NoBulkOnlyInterface
    /\ Len(usb.config) = 2
    /\ usb.st = "Opened"
    /\ mscOp.op = "get_max_lun"
    /\ botOp.res = "err"

\* the last write or read made a transfer that the device stalled
StalledTransfer ==
    /\ mscOp.op \in {"write", "read"}
    /\ mscOp.out.bus # <<>>
    /\ mscOp.out.bus[1].done = "stall"

\* the clear_halt calls of a list of handle calls
HaltsCleared(calls) ==
    Cardinality({i \in DOMAIN calls : calls[i].call = "clear_halt"})

\* C26: when a bulk write or read of the transport fails with a pipe stall, the
\* halt of both the bulk IN and the bulk OUT endpoint is cleared before
\* UsbDeviceBulkFailed is returned, and the transfer is not retried: the next
\* command starts with both endpoints un-halted.
C26_StallClearsHalts ==
    StalledTransfer
    => /\ mscOp.out.res = "err"
       /\ mscOp.out.err = "UsbDeviceBulkFailed"
       /\ Len(mscOp.out.bus) = 1
       /\ HaltsCleared(mscOp.calls) = 2
       /\ usb.halted = {}

\* what write and read do on a stall: the error is returned after the one
\* transfer, no clear_halt is called and the endpoint stays halted
C26_StallSurfacedOnly ==
    StalledTransfer
    => /\ mscOp.out.res = "err"
       /\ mscOp.out.err = "UsbDeviceBulkFailed"
       /\ Len(mscOp.out.bus) = 1
       /\ HaltsCleared(mscOp.calls) = 0
       /\ usb.halted # {}

\* C27: with a transport, get_max_lun makes exactly one control transfer and
\* never a second; it returns 0 when the device stalls the request, the byte
\* received when exactly one byte was received, and UsbDeviceBulkFailed for
\* every other low-level error.
C27_GetMaxLun ==
    (mscOp.op = "get_max_lun" /\ transport)
    => /\ Len(mscOp.out.bus) = 1
       /\ mscOp.out.bus[1].kind = "GET_MAX_LUN"
       /\ mscOp.out.bus[1].tag = usb.interface_number
       /\ mscOp.out.bus[1].done = "stall"
             => (mscOp.out.res = "ok" /\ mscOp.out.n = 0)
       /\ mscOp.out.bus[1].done = "one"
             => (mscOp.out.res = "ok" /\ mscOp.out.n = mscOp.out.bus[1].bytes[1])
       /\ mscOp.out.bus[1].done = "err"
             => (mscOp.out.res = "err" /\ mscOp.out.err = "UsbDeviceBulkFailed")
       /\ mscOp.out.res = "err" => mscOp.out.bus[1].done = "err"

\* the device stalled GET_MAX_LUN and the call returned 0
C27_Witness ==
    /\ mscOp.op = "get_max_lun"
    /\ transport
    /\ mscOp.out.bus # <<>>
    /\ mscOp.out.bus[1].done = "stall"
    /\ mscOp.out.res = "ok"

\* C28: on a UsbBlockDevice in any reachable state, a seek whose target is
\* negative (End(off) with disk_size + off < 0, Current(off) with
\* pos + off < 0) is rejected with an error and leaves the position unchanged.
C28_SeekBeforeStart ==
    LET disk == (max_lba + 1) * block_size
    IN  /\ \A off \in (0 - (MaxDiskBytes + MaxSeek))..(0 - 1) :
             /\ disk + off < 0
                   => LET r == UsbBlockDevice_seek(Dev(NoFail), "End", off)
                      IN  r.res = "err" /\ r.pos = pos
             /\ pos + off < 0
                   => LET r == UsbBlockDevice_seek(Dev(NoFail), "Current", off)
                      IN  r.res = "err" /\ r.pos = pos
        /\ (lastOp.op = "seek" /\ lastOp.res = "err")
              => /\ pos = lastOp.p
                 /\ lastOp.n < 0
                 /\ (disk + lastOp.n < 0 \/ lastOp.p + lastOp.n < 0)

\* a seek to before the start of a disk that is not empty was rejected, at a
\* position inside the disk
C28_Witness ==
    /\ lastOp.op = "seek"
    /\ lastOp.res = "err"
    /\ lastOp.n < 0
    /\ (max_lba + 1) * block_size > 0
    /\ pos = lastOp.p

\* every chunk of the stream was written and the file was flushed
StreamStored ==
    /\ deploy.created
    /\ deploy.sent = deploy.len
    /\ \A i \in DOMAIN deploy.writes : deploy.writes[i].done = "ok"
    /\ deploy.flush = "ok"

\* C29: deploy_to_usb returns an error whenever creating out.uf2, writing a
\* chunk of the UF2 stream or the final flush fails; it returns Ok only when
\* the whole stream was written and flushed.
C29_DeployErrorsSurfaced ==
    deploy.pc = "done"
    => /\ deploy.ret \in {"Ok", "Err"}
       /\ deploy.ret = "Ok" <=> StreamStored

\* what deploy_to_usb returns: an error exactly when open, block_device or the
\* mount failed; Ok after every create_file, whatever it and the writes did
C29_DeployReturnsOk ==
    deploy.pc = "done"
    => /\ deploy.ret \in {"Ok", "Err"}
       /\ deploy.ret = "Err" <=> deploy.mount # "ok"

\* C30: when the conversion fails after convert has created the output file,
\* the partial output file is deleted before convert returns the error: after
\* a failed convert no output file created by that run remains.
C30_PartialOutputDeleted ==
    (conv.pc = "returned" /\ outFile.created /\ outFile.ret = "Err")
    => ~outFile.exists

\* what convert leaves: the file it created stays at the output path whatever
\* the conversion returned
C30_OutputFileStays ==
    (conv.pc = "returned" /\ outFile.created) => outFile.exists

\* the advance calls among the first n calls on the progress reporter
Advances(n) ==
    Cardinality({i \in 1..n : conv.reporter[i].ev = "advance"})

\* length of a UF2 block on the output (512 in the program)
Uf2BlockLen == UF2_HEADER_LEN + Uf2DataLen + UF2_FOOTER_LEN

\* C32: on a successful elf2uf2 with N blocks the progress reporter receives,
\* in this order, one start(512 * N), N calls advance(512) and one finish();
\* the advances sum to the total given to start and cover the N blocks written
\* to the output, and no advance for a block precedes the write of that block.
C32_ReporterProtocol ==
    /\ Advances(Len(conv.reporter)) <= Len(conv.blocks)
    /\ Finished
          => /\ Len(conv.blocks) = conv.num_blocks
             /\ conv.out_len = conv.num_blocks * Uf2BlockLen
             /\ Len(conv.reporter) = conv.num_blocks + 2
             /\ conv.reporter[1]
                   = [ev |-> "start", bytes |-> REPORT_BLOCK * conv.num_blocks]
             /\ \A i \in 2..(conv.num_blocks + 1) :
                   conv.reporter[i] = [ev |-> "advance", bytes |-> REPORT_BLOCK]
             /\ conv.reporter[conv.num_blocks + 2] = [ev |-> "finish", bytes |-> 0]

\* a conversion of three blocks or more has ended with success
C32_Witness ==
    /\ Finished
    /\ conv.num_blocks >= 3
    /\ Advances(Len(conv.reporter)) = conv.num_blocks

\* the mapped size of a program header: min(p_filesz, p_memsz) of a PT_LOAD
\* header with memory, 0 of any other
Mapped(seg) ==
    IF seg.load /\ seg.p_memsz > 0 THEN Min(seg.p_filesz, seg.p_memsz) ELSE 0

\* the map holds fragments that partition the mapped region of seg from byte
\* sum on: each at the target address and file offset of the bytes before it,
\* each but the last up to the end of its page
RECURSIVE PartitionedFrom(_, _)
PartitionedFrom(seg, sum) ==
    IF sum = Mapped(seg) THEN TRUE
    ELSE \E k \in DOMAIN conv.seen :
            \E n \in DOMAIN conv.seen[k] :
               LET f == conv.seen[k][n]
               IN  /\ k + f.page_offset = Wrap64(seg.p_paddr + sum)
                   /\ f.file_offset = seg.p_offset + sum
                   /\ f.bytes > 0
                   /\ sum + f.bytes <= Mapped(seg)
                   /\ sum + f.bytes < Mapped(seg)
                         => f.page_offset + f.bytes = elf.board.page_size
                   /\ PartitionedFrom(seg, sum + f.bytes)

RECURSIVE SumOver(_, _)
SumOver(f, S) ==
    IF S = {} THEN 0
    ELSE LET x == CHOOSE y \in S : TRUE
         IN  f[x] + SumOver(f, S \ {x})

\* the bytes of all fragments of the map
BytesOfMap ==
    SumOver([k \in DOMAIN conv.seen |->
                SumOver([n \in DOMAIN conv.seen[k] |-> conv.seen[k][n].bytes],
                        DOMAIN conv.seen[k])],
            DOMAIN conv.seen)

\* C33: in a page map returned by get_page_fragments, the fragments added for
\* each loadable segment partition [p_paddr, p_paddr + min(p_filesz, p_memsz)):
\* each fragment lies at the target address p_paddr plus the bytes of the
\* earlier fragments and has file_offset p_offset plus the same sum, the bytes
\* sum to min(p_filesz, p_memsz), and each fragment but the last ends where
\* its page ends; the map holds no other fragment.
C33_FragmentsPartition ==
    MapReturned
    => /\ \A i \in DOMAIN elf.segs : PartitionedFrom(elf.segs[i], 0)
       /\ BytesOfMap = SumOver([i \in DOMAIN elf.segs |-> Mapped(elf.segs[i])],
                               DOMAIN elf.segs)

\* a map was returned for a segment of two fragments, the second at
\* page_offset 0, next to another segment with file bytes
C33_Witness ==
    /\ MapReturned
    /\ Len(elf.segs) = 2
    /\ Mapped(elf.segs[1]) > 0
    /\ Mapped(elf.segs[2]) = 2
    /\ \E k \in DOMAIN conv.seen :
          \E n \in DOMAIN conv.seen[k] :
             /\ conv.seen[k][n].page_offset = 0
             /\ conv.seen[k][n].bytes = 1
             /\ conv.seen[k][n].file_offset = elf.segs[2].p_offset + 1

\* C39: get_page_fragments never returns MemorySegmentInvalidForDevice: the
\* mapped region and the BSS tail of every loadable segment lie in a range
\* derived from the same segments.
C39_NeverInvalidForDevice ==
    conv.err # "MemorySegmentInvalidForDevice"

\* no PT_LOAD header of the ELF runs over the top of the address space
NoSegmentWraps ==
    \A i \in DOMAIN elf.segs : ~seg_ranges_overflow(elf.segs[i])

\* when no segment runs over the top of the address space, the error is never
\* MemorySegmentInvalidForDevice
C39_NeverInvalidWithoutWrap ==
    NoSegmentWraps => conv.err # "MemorySegmentInvalidForDevice"

\* the transfers of the last execute_command, after the CBW, that moved fewer
\* bytes than asked
ShortTransfers ==
    {i \in DOMAIN botOp.sent :
        botOp.sent[i].kind \in {"DATA_IN", "DATA_OUT", "CSW"}
            /\ botOp.sent[i].done = "short"}

\* C34: execute_command reports success only when the data phase moved exactly
\* data_buf.len() bytes, in direction IN and in direction OUT, and the CSW read
\* returned exactly 13 bytes; a short data transfer or a short CSW is returned
\* to the caller as an error value.
C34_ExactTransfers ==
    /\ botOp.res = "ok" => ShortTransfers = {}
    /\ ShortTransfers # {} => botOp.res = "err"

\* what execute_command does with a short transfer: a short read of the data
\* or of the CSW stops it with a panic, a short write of the data is not seen
C34_ShortTransfers ==
    \A i \in ShortTransfers :
        IF botOp.sent[i].kind = "DATA_OUT"
        THEN botOp.res # "panic" \/ i < Len(botOp.sent)
        ELSE botOp.res = "panic" /\ i = Len(botOp.sent)

(***************************************************************************)
(* C35: the lengths and the LBA of the READ(10) and WRITE(10) commands of  *)
(* read and write.                                                         *)
(***************************************************************************)

\* the command of an entry of lastOp.cmds, as read_blocks and write_blocks
\* build it (LUN 0)
CommandOf(c) ==
    [op |-> c.op, alloc_len |-> 0, logical_unit_number |-> 0,
     logical_block_address |-> c.lba, transfer_length |-> c.count]

\* the big-endian transfer length and LBA of a CDB of READ(10) or WRITE(10)
CdbTransferLength(cdb) == cdb[8] * 256 + cdb[9]
CdbLba(cdb) == ((cdb[3] * 256 + cdb[4]) * 256 + cdb[5]) * 256 + cdb[6]

\* the source bytes that the WRITE(10) commands before command i of a write
\* stored
StoredBefore(c, i, bs, p, want) ==
    Cardinality(UNION {CoveredOf(b, bs, p, want) :
        b \in UNION {c[j].lba..(c[j].lba + c[j].count - 1) :
                        j \in {k \in 1..(i - 1) : c[k].op = "WRITE10"}}})

\* a command whose transfer length fits 16 bits and, times block_size, is
\* the data length of the CBW (the data-phase buffer is of that length), and
\* whose LBA is the block of the first byte it transfers
CommandAsClaimed(c, i, bs, p, want) ==
    LET cdb == CommandBlock_to_bytes(CommandOf(c[i]))
    IN  /\ c[i].count < Pow2(U16Bits)
        /\ CdbTransferLength(cdb) * bs = c[i].data_len
        /\ CdbLba(cdb) = (p + StoredBefore(c, i, bs, p, want)) \div bs

\* the bytes the last read or write had to move
WantOfLast == IF lastOp.op = "write" THEN WantOfWrite ELSE WantOfRead

\* C35: every read and write that has bytes to move and that no command
\* failed issues READ(10) and WRITE(10) commands, and in each of them the
\* 16-bit transfer length times block_size is the data length of the CBW and
\* the LBA is the block of the first byte transferred, whatever the number of
\* blocks of the request.
C35_CommandLengths ==
    (lastOp.op \in {"read", "write"} /\ lastOp.res # "err" /\ WantOfLast > 0
        /\ block_size >= 1)
        => /\ lastOp.cmds # <<>>
           /\ \A i \in DOMAIN lastOp.cmds :
                 CommandAsClaimed(lastOp.cmds, i, block_size, lastOp.p,
                                  WantOfLast)

\* The commands that read and write do issue are as C35 says.
C35_IssuedCommandLengths ==
    (lastOp.op \in {"read", "write"} /\ block_size >= 1)
        => \A i \in DOMAIN lastOp.cmds :
              CommandAsClaimed(lastOp.cmds, i, block_size, lastOp.p,
                               WantOfLast)

\* A request whose blocks a u16 cannot count issues no command.
C35_NoCommandBeyondU16 ==
    (/\ lastOp.op = "read" /\ WantOfRead > 0 /\ block_size >= 1
     /\ BlocksOfRead >= Pow2(U16Bits))
        => lastOp.cmds = <<>> /\ lastOp.res = "panic"

(***************************************************************************)
(* C36: the write loop ends, and write returns what it had to store.       *)
(***************************************************************************)

\* the blocks that the source of the last write covers whole
FullBlocksOfWrite ==
    {b \in 0..max_lba :
        Cardinality(CoveredOf(b, block_size, lastOp.p, WantOfWrite))
            = block_size}

\* what C36 says of a write whose commands all succeeded
WriteAsClaimed ==
    /\ lastOp.res = "ok"
    /\ lastOp.ret = WantOfWrite
    /\ pos = lastOp.p + WantOfWrite
    /\ WantOfWrite = 0 => lastOp.cmds = <<>>
    /\ \A i \in DOMAIN lastOp.cmds :
          lastOp.cmds[i].op = "WRITE10"
              => StoredBefore(lastOp.cmds, i + 1, block_size, lastOp.p,
                              WantOfWrite)
                 > StoredBefore(lastOp.cmds, i, block_size, lastOp.p,
                                WantOfWrite)

\* C36: with a block size of at least 1, a write that no command failed
\* returns min(n, disk_size - p) and advances the position by that much,
\* every WRITE(10) of its loop stores at least one more source byte, and a
\* write of nothing issues no command.
C36_WriteTerminates ==
    (lastOp.op = "write" /\ lastOp.res # "err" /\ block_size >= 1)
        => WriteAsClaimed

\* The writes whose whole blocks a u16 can count are as C36 says.
C36_WriteOfU16Blocks ==
    (/\ lastOp.op = "write" /\ lastOp.res # "err" /\ block_size >= 1
     /\ Cardinality(FullBlocksOfWrite) < Pow2(U16Bits))
        => WriteAsClaimed

(***************************************************************************)
(* C38: a write that a block command failed.                               *)
(***************************************************************************)

\* C38: a write in which a READ(10) or WRITE(10) failed returns the error;
\* the failed command is the last one it issued, every command before it
\* succeeded, and the position is the position before the call plus the
\* source bytes that the successful WRITE(10) commands stored: the bytes of
\* the failed command are not counted.
C38_FailedWritePosition ==
    (lastOp.op = "write" /\ lastOp.res = "err")
        => LET c == lastOp.cmds
           IN  /\ lastOp.ret = 0
               /\ c # <<>>
               /\ c[Len(c)].res = "err"
               /\ \A i \in 1..(Len(c) - 1) : c[i].res = "ok"
               /\ pos = lastOp.p + StoredBefore(c, Len(c), block_size,
                                                lastOp.p, WantOfWrite)
               /\ pos < lastOp.p + WantOfWrite

\* a write whose first block was patched and written back and whose next
\* WRITE(10) failed
C38_Witness ==
    /\ lastOp.op = "write"
    /\ lastOp.res = "err"
    /\ Len(lastOp.cmds) = 3
    /\ lastOp.cmds[3].op = "WRITE10"
    /\ pos > lastOp.p

(***************************************************************************)
(* StorageUsb and FatPartition (usbh-fatfs/src/lib.rs).  A StorageUsb is   *)
(* [inner, opens, usb_device]: inner is the variant of StorageUsbInner,    *)
(* opens counts the UsbMassStorage<Closed>::open calls made for it, and    *)
(* usb_device is the disk behind it, [table, parts]: whether its partition *)
(* table can be read, and for each partition whether it holds a FAT file   *)
(* system and the entries of its root directory.  A directory entry is     *)
(* [ok, name]; a name is the sequence of its characters.                   *)
(***************************************************************************)

\* StorageUsb values that list_usbs returns, partitions of a partition table
NumUsbs == 2
MaxParts == 2

INFO_UF2_TXT == <<"I", "N", "F", "O", "_", "U", "F", "2", ".", "T", "X", "T">>
INDEX_HTM == <<"I", "N", "D", "E", "X", ".", "H", "T", "M">>

\* str::contains
contains(name, pat) ==
    \E i \in 0..(Len(name) - Len(pat)) :
        SubSeq(name, i + 1, i + Len(pat)) = pat

\* a directory entry that reads, one that does not
Entry(name) == [ok |-> TRUE, name |-> name]
BadEntry == [ok |-> FALSE, name |-> <<>>]

\* the root directories of the partitions
Roots ==
    {<<>>,
     <<Entry(INFO_UF2_TXT)>>,
     <<Entry(INDEX_HTM), Entry(<<"~">> \o INFO_UF2_TXT \o <<"~">>)>>,
     <<BadEntry, Entry(INDEX_HTM)>>,
     <<Entry(SubSeq(INFO_UF2_TXT, 1, 11))>>}

\* the partitions: FAT with one of the roots, or not FAT
Partitions ==
    {[fat |-> TRUE, root |-> r] : r \in Roots}
        \cup {[fat |-> FALSE, root |-> <<>>]}

\* the disks: an unreadable partition table, or up to MaxParts partitions
Disks ==
    {[table |-> FALSE, parts |-> <<>>]}
        \cup {[table |-> TRUE, parts |-> ps] : ps \in SeqsUpTo(Partitions, MaxParts)}

\* what the device does during list_partitions: the outcome of
\* UsbMassStorage<Closed>::open and of block_device, and the partitions whose
\* blocks do not read
PartEnvs ==
    [open : {"ok", "err"}, block_device : {"ok", "err"},
     bad : SUBSET (1..MaxParts)]

\* StorageUsb::open (lines 82-95): mem::replace leaves ClosedDummy in
\* self.inner; `closed.open()?` returns early on an error, with the closed
\* value consumed; an Opened value is put back; ClosedDummy is unreachable!()
StorageUsb_open(su, outcome) ==
    CASE su.inner = "Closed" ->
            IF outcome = "ok"
            THEN [su |-> [su EXCEPT !.inner = "Opened", !.opens = @ + 1],
                  res |-> "Ok"]
            ELSE [su |-> [su EXCEPT !.inner = "ClosedDummy", !.opens = @ + 1],
                  res |-> "Err"]
      [] su.inner = "Opened" -> [su |-> su, res |-> "Ok"]
      [] OTHER -> [su |-> [su EXCEPT !.inner = "ClosedDummy"], res |-> "panic"]

\* fatfs::FileSystem::new on partition k of the disk
Mounts(disk, k, bad) == disk.parts[k].fat /\ k \notin bad

\* the indices of the partitions of the disk, in the order of its table
PartIndices(disk) == [k \in 1..Len(disk.parts) |-> k]

\* FatPartition::list_partitions (lines 126-163): open()?, block_device()?,
\* bootsector::list_partitions()?, then the partitions that mount as FAT
FatPartition_list_partitions(su, env) ==
    LET o == StorageUsb_open(su, env.open)
        disk == su.usb_device
        Fat(k) == Mounts(disk, k, env.bad)
        ks == PartIndices(disk)
    IN  IF o.res # "Ok"
        THEN [su |-> o.su, res |-> o.res,
              err |-> IF o.res = "Err" THEN "UsbMassStorageError" ELSE "",
              parts |-> <<>>]
        ELSE IF env.block_device # "ok"
        THEN [su |-> o.su, res |-> "Err", err |-> "BlockDeviceOpenFail",
              parts |-> <<>>]
        ELSE IF ~disk.table
        THEN [su |-> o.su, res |-> "Err", err |-> "ListingPartitionFail",
              parts |-> <<>>]
        ELSE [su |-> o.su, res |-> "Ok", err |-> "",
              parts |-> SelectSeq(ks, Fat)]

\* StorageUsb::list_usbs: every StorageUsb starts Closed
InitSto ==
    /\ \E disks \in [1..NumUsbs -> Disks] :
          storage = [NoStorage EXCEPT
                        !.usbs = [d \in 1..NumUsbs |->
                                     [inner |-> "Closed", opens |-> 0,
                                      usb_device |-> disks[d]]]]
    /\ plugged = NoPlugged
    /\ deploy = NoDeploy /\ outFile = NoFile
    /\ medium = <<>> /\ block_size = 0 /\ max_lba = 0 /\ pos = 0 /\ lastOp = NoOp
    /\ ViewIdle
    /\ BotIdle
    /\ Uf2Idle

\* a call of StorageUsb::open on one of the devices
StoOpen ==
    /\ storage.res # "panic"
    /\ \E d \in 1..NumUsbs, outcome \in {"ok", "err"} :
          \E r \in {StorageUsb_open(storage.usbs[d], outcome)} :
              storage' = [storage EXCEPT !.usbs[d] = r.su, !.op = "open",
                                         !.dev = d, !.res = r.res, !.err = "",
                                         !.parts = <<>>]
    /\ UNCHANGED <<plugged, deploy, outFile, blkVars, viewVars, botVars, uf2Vars>>

\* a call of FatPartition::list_partitions on one of the devices
StoListPartitions ==
    /\ storage.res # "panic"
    /\ \E d \in 1..NumUsbs, env \in PartEnvs :
          \E r \in {FatPartition_list_partitions(storage.usbs[d], env)} :
              storage' = [storage EXCEPT !.usbs[d] = r.su,
                                         !.op = "list_partitions",
                                         !.dev = d, !.res = r.res,
                                         !.err = r.err, !.parts = r.parts]
    /\ UNCHANGED <<plugged, deploy, outFile, blkVars, viewVars, botVars, uf2Vars>>

NextSto == StoOpen \/ StoListPartitions

SpecSto == InitSto /\ [][NextSto]_vars

\* C37: after any calls of StorageUsb::open, failed ones included, no
\* StorageUsb is left in ClosedDummy and no call has hit unreachable!(): an
\* open on an Opened value returns it without opening again, and an open
\* after a failed one tries again.
C37_NeverClosedDummy ==
    /\ \A d \in DOMAIN storage.usbs :
          storage.usbs[d].inner \in {"Closed", "Opened"}
    /\ storage.res # "panic"

\* What open does: a failed open leaves ClosedDummy for good, every later
\* open of that StorageUsb panics, and the device is opened at most once.
C37_FailedOpenSticks ==
    /\ \A d \in DOMAIN storage.usbs :
          LET su == storage.usbs[d]
          IN  /\ su.opens <= 1
              /\ su.inner = "Closed" <=> su.opens = 0
    /\ [][\A d \in DOMAIN storage.usbs :
            /\ storage.usbs[d].inner = "ClosedDummy"
                  => storage'.usbs[d].inner = "ClosedDummy"
            /\ (storage.usbs[d].inner = "ClosedDummy" /\ storage'.dev = d
                /\ storage' # storage)
                  => storage'.res = "panic"
            /\ (storage.usbs[d].inner = "Opened" /\ storage'.dev = d)
                  => (storage'.usbs[d] = storage.usbs[d]
                      /\ (storage'.op = "open" => storage'.res = "Ok"))]_vars

(***************************************************************************)
(* The deploy command (commands/deploy/mod.rs) over the plugged-in boards. *)
(* storage.usbs are the StorageUsb values of get_plugged_in_boards;        *)
(* plugged is [pc, family, i, partitions, j, listed, created, visited,     *)
(* ret]: board i of the loop, the partitions list_uf2_partitions returned  *)
(* for it and the next one to flash, the partitions <<board, index>> that  *)
(* list_uf2_partitions returned and those on which out.uf2 was created,    *)
(* and how the loop left each board it has been through.  family says      *)
(* whether a family id is known for the boards (a recognised board, a      *)
(* board name or --family); without one a generic device is passed over.   *)
(***************************************************************************)

\* a root directory with an entry that reads and whose name contains
\* INFO_UF2.TXT (to_usb.rs lines 119-136)
contains_info_uf2(root) ==
    \E n \in DOMAIN root : root[n].ok /\ contains(root[n].name, INFO_UF2_TXT)

\* a list_uf2_partitions that keeps every partition that mounts
list_uf2_partitions_any_fat(su, env, bad) ==
    LET lp == FatPartition_list_partitions(su, env)
        Kept(k) == Mounts(su.usb_device, k, bad)
    IN  [su |-> lp.su, res |-> lp.res,
         parts |-> IF lp.res = "Ok" THEN SelectSeq(lp.parts, Kept) ELSE <<>>]

\* list_uf2_partitions (to_usb.rs lines 59-157): bail! when list_partitions
\* fails; of its partitions, those for which open, block_device and
\* FileSystem::new succeed (bad: the partitions for which one of them fails)
\* and whose root directory has INFO_UF2.TXT
list_uf2_partitions(su, env, bad) ==
    LET lp == FatPartition_list_partitions(su, env)
        disk == su.usb_device
        Kept(k) ==
            /\ StorageUsb_open(lp.su, env.open).res = "Ok"
            /\ Mounts(disk, k, bad)
            /\ contains_info_uf2(disk.parts[k].root)
    IN  [su |-> lp.su, res |-> lp.res,
         parts |-> IF lp.res = "Ok" THEN SelectSeq(lp.parts, Kept) ELSE <<>>]

\* deploy_to_usb on partition k (to_usb.rs lines 174-254): whether it creates
\* out.uf2 in the root directory of the partition
deploy_to_usb_created(su, k, env, create) ==
    LET o == StorageUsb_open(su, env.open)
        outcome == IF o.res # "Ok" THEN "open"
                   ELSE IF env.block_device # "ok" THEN "block_device"
                   ELSE IF ~Mounts(su.usb_device, k, env.bad) THEN "mount"
                   ELSE "ok"
        mounted == deploy_mount(NoDeploy, outcome)
    IN  mounted.pc = "create" /\ deploy_create(mounted, create).created

\* the end of an iteration of `for plugged_in_board in plugged_in_boards`
\* (mod.rs lines 57-140); after the last board deploy goes on to Ok(())
next_board(p, how) ==
    [p EXCEPT !.visited = Append(@, how),
              !.i = @ + 1,
              !.partitions = <<>>,
              !.j = 0,
              !.pc = IF p.i = NumUsbs THEN "done" ELSE "board",
              !.ret = IF p.i = NumUsbs THEN "Ok" ELSE @]

\* get_plugged_in_boards returned NumUsbs boards, all Closed
InitBoards ==
    /\ \E disks \in [1..NumUsbs -> Disks] :
          storage = [NoStorage EXCEPT
                        !.usbs = [d \in 1..NumUsbs |->
                                     [inner |-> "Closed", opens |-> 0,
                                      usb_device |-> disks[d]]]]
    /\ \E family \in BOOLEAN :
          plugged = [NoPlugged EXCEPT !.pc = "board", !.family = family, !.i = 1]
    /\ deploy = NoDeploy /\ outFile = NoFile
    /\ medium = <<>> /\ block_size = 0 /\ max_lba = 0 /\ pos = 0 /\ lastOp = NoOp
    /\ ViewIdle
    /\ BotIdle
    /\ Uf2Idle

\* mod.rs lines 57-109: the board descriptor (`continue` without a family
\* id), then list_uf2_partitions (`Err(_err) => continue`)
BoardsList ==
    /\ plugged.pc = "board"
    /\ IF ~plugged.family
       THEN /\ plugged' = next_board(plugged, "no_family")
            /\ UNCHANGED storage
       ELSE \E env \in PartEnvs, bad \in SUBSET (1..MaxParts) :
              \E r \in {list_uf2_partitions(storage.usbs[plugged.i], env, bad)} :
                 /\ storage' = [storage EXCEPT !.usbs[plugged.i] = r.su,
                                               !.op = "list_uf2_partitions",
                                               !.dev = plugged.i,
                                               !.res = r.res,
                                               !.parts = r.parts]
                 /\ plugged' =
                       IF r.res = "Ok"
                       THEN [plugged EXCEPT
                                !.pc = "convert",
                                !.partitions = r.parts,
                                !.listed = @ \cup {<<plugged.i, r.parts[n]>> :
                                                      n \in DOMAIN r.parts}]
                       ELSE IF r.res = "Err"
                       THEN next_board(plugged, "not_listed")
                       ELSE [plugged EXCEPT !.pc = "done", !.ret = "panic"]
    /\ UNCHANGED <<deploy, outFile, blkVars, viewVars, botVars, uf2Vars>>

\* mod.rs lines 111-121: `elf2uf2(...)?` for the board
BoardsConvert ==
    /\ plugged.pc = "convert"
    /\ \E converted \in BOOLEAN :
          plugged' =
              IF ~converted
              THEN [plugged EXCEPT !.pc = "done", !.ret = "Err",
                                   !.visited = Append(@, "elf_err")]
              ELSE IF plugged.partitions = <<>>
              THEN next_board(plugged, "deployed")
              ELSE [plugged EXCEPT !.pc = "flash", !.j = 1]
    /\ UNCHANGED <<storage, deploy, outFile, blkVars, viewVars, botVars, uf2Vars>>

\* mod.rs lines 123-138: deploy_to_usb for the next partition of the list;
\* its error is logged
BoardsFlash ==
    /\ plugged.pc = "flash"
    /\ \E env \in PartEnvs, create \in {"ok", "err"} :
          LET k == plugged.partitions[plugged.j]
              su == storage.usbs[plugged.i]
              p == IF deploy_to_usb_created(su, k, env, create)
                   THEN [plugged EXCEPT !.created = @ \cup {<<plugged.i, k>>}]
                   ELSE plugged
          IN  /\ plugged' = IF plugged.j = Len(plugged.partitions)
                            THEN next_board(p, "deployed")
                            ELSE [p EXCEPT !.j = @ + 1]
              /\ storage' = [storage EXCEPT
                                !.usbs[plugged.i] =
                                    StorageUsb_open(su, env.open).su]
    /\ UNCHANGED <<deploy, outFile, blkVars, viewVars, botVars, uf2Vars>>

NextBoards == BoardsList \/ BoardsConvert \/ BoardsFlash

SpecBoards == InitBoards /\ [][NextBoards]_vars

\* the disk of board i
DiskOf(i) == storage.usbs[i].usb_device

\* C31: out.uf2 is created only on partitions that list_uf2_partitions
\* returned, and those are partitions of a readable table that hold a FAT
\* file system whose root directory has an entry with INFO_UF2.TXT in its
\* name; a board whose partitions could not be listed has nothing created on
\* it and does not end the loop: only a failed conversion ends deploy with
\* an error, and a deploy that returns Ok has been through every board.
C31_OnlyUf2Partitions ==
    /\ plugged.created \subseteq plugged.listed
    /\ \A t \in plugged.listed :
          /\ DiskOf(t[1]).table
          /\ t[2] \in DOMAIN DiskOf(t[1]).parts
          /\ DiskOf(t[1]).parts[t[2]].fat
          /\ contains_info_uf2(DiskOf(t[1]).parts[t[2]].root)
    /\ \A n \in DOMAIN plugged.visited :
          plugged.visited[n] = "not_listed"
              => /\ ~\E t \in plugged.created : t[1] = n
                 /\ n < Len(plugged.visited) \/ plugged.i = n + 1
    /\ \A n \in 1..NumUsbs :
          (~DiskOf(n).table /\ n <= Len(plugged.visited) /\ plugged.family)
              => plugged.visited[n] = "not_listed"
    /\ plugged.ret = "Err"
          => plugged.visited[Len(plugged.visited)] = "elf_err"
    /\ plugged.ret = "Ok" => Len(plugged.visited) = NumUsbs
    /\ plugged.ret # "panic"

\* deploy returned Ok: the first board could not be listed, and on the
\* second out.uf2 was created on one partition and not on another, which has
\* no INFO_UF2.TXT
C31_Witness ==
    /\ plugged.pc = "done"
    /\ plugged.ret = "Ok"
    /\ plugged.visited = <<"not_listed", "deployed">>
    /\ \E k \in DOMAIN DiskOf(2).parts :
          /\ <<2, k>> \in plugged.created
          /\ \E m \in DOMAIN DiskOf(2).parts :
                /\ DiskOf(2).parts[m].fat
                /\ ~contains_info_uf2(DiskOf(2).parts[m].root)
                /\ <<2, m>> \notin plugged.created

====
